---------------------------- MODULE Spec2Model ----------------------------
(***************************************************************************)
(* A model of pyjac/kernel_utils/kernel_gen.py: the argument resolution    *)
(* (_process_args), the memory placement (_process_memory) and the host    *)
(* constant migration (_migrate_host_constants) of class kernel_generator. *)
(*                                                                         *)
(* A kernel argument or temporary is a record                              *)
(*   [cls, name, dtype, atomic, shape, scope, read_only]                   *)
(* where cls is the loopy class of the object, dtype/atomic are the numpy  *)
(* base type and whether the loopy type is an AtomicNumpyType, shape is    *)
(* the tuple of dimensions and scope the address space.  Two objects are   *)
(* equal (Python ==) exactly when the records are equal.                   *)
(* A kernel is a record [name, args, temporary_variables, written]:        *)
(* args is the list knl.args, temporary_variables the values of the dict   *)
(* knl.temporary_variables in insertion order, and written the result of   *)
(* knl.get_written_variables().                                            *)
(***************************************************************************)
EXTENDS Integers, Sequences, FiniteSets, TLC

VARIABLES
    pc,                 \* position of the generator in the calls modelled
    self_kernels,       \* self.kernels
    depends_on,         \* the kernel list dep.kernels of every dep in self.depends_on
    extra_kernel_data,  \* self.extra_kernel_data
    hoist_locals,       \* self.hoist_locals
    kernel_type,        \* self.kernel_type: "dummy" or another KernelType
    call,               \* the parameters of the last _process_args call and the lists it saw
    kernels,            \* the list 'kernels' of the running / last call
    args,               \* returned / current 'args'
    local,              \* returned 'local'
    readonly,           \* returned / current 'readonly'
    constants,          \* returned / current 'constants'
    valueargs,          \* returned 'valueargs'
    temps,              \* 'temps' after the duplicate scan (line 1266)
    remaining_temps,    \* 'temps' when the call returns (line 1286)
    resolved_kernels,   \* the list 'kernels' when the hoisting starts (line 1268)
    outcome,            \* "none", "ok" or the name of the exception raised
    first,              \* what the first of two _process_args calls returned
    limits,             \* memory limit per memory class (in array elements)
    type_changes,       \* type_changes[memory_type.m_global]
    gtemps,             \* the promotion candidates still to try
    host_constants,     \* returned 'host_constants'
    steps,              \* number of arrays appended to type_changes so far
    buffer_args,        \* the list 'args' given to _get_working_buffer
    loopy_work_size,    \* self.loopy_opts.work_size: "None" or the integer of the user
    size_per_work_item, \* the running total of _get_working_buffer
    offsets,            \* the dict 'offsets', as the list of its (name, offset) items
    arg_index,          \* the number of arrays the loop of line 1498 has finished
    lang,               \* self.lang: "opencl" (opencl_kernel_generator) or "c"
    barriers,           \* self.barriers: triples (before, after, kind)
    instructions_in,    \* the list given to apply_barriers
    instructions,       \* the local list 'instructions' of apply_barriers
    barrier_index,      \* the number of barriers the loop of line 2668 has finished
    loopy_opts,         \* the options: depth, width, unr, ilp, is_simd, lang
    info,               \* the descriptor: var_name, can_vectorize, vectorization_specializer
    for_testing,        \* self.for_testing
    specialization,     \* what apply_specialization(get_specialization=True) returned
    specialized,        \* what apply_specialization(get_specialization=False) returned
    gen_kernels,        \* the list x.kernels of every generator x (1 is the generator that runs generate)
    gen_depends_on,     \* the list x.depends_on of every generator x
    generate_all,       \* self.generate_all
    make_stack,         \* the running calls of _make_kernels, the innermost first
    driver_kernels,     \* the list of driver descriptors / kernels of _generate_driver_kernel
    created,            \* the directories and files created so far
    compiled,           \* the kernels given to lp.generate_code_v2 so far
    resolution_kernels, \* the kernel list the last _process_args call worked on
    phases,             \* the calls of generate() and the phases they started, in order
    generator_name,     \* self.name of the generator whose driver is assembled, as text
    driver_list,        \* the list 'kernels' of the driver's _merge_kernels
    extra_kernels,      \* the bodies of the kernels, in the order of the list
    call_instructions,  \* the call instructions of the kernels
    extra_fake_kernels, \* (fake call, index) pairs marked for replacement: the indices
    emitted,            \* the driver text handed to _to_file
    merge_kernels,      \* the kernels of _merge_kernels with what the kernel compiler returns for them
    target_preambles,   \* self.target_preambles
    merge_readonly,     \* the read-only names the placement returned to _merge_kernels
    merge_offsets,      \* the offsets of the packed arrays: (array, offset) in the order of the dict
    assembling_driver,  \* the parameter for_driver of _merge_kernels
    preambles,          \* the local list 'preambles' of _merge_kernels
    inits,              \* the local list 'inits' of _merge_kernels
    merge_instructions, \* the local list 'instructions' of _merge_kernels
    merge_result        \* the texts (instructions, preambles) _merge_kernels returns

vars == <<pc, self_kernels, depends_on, extra_kernel_data, hoist_locals, kernel_type,
          call, kernels, args, local, readonly, constants, valueargs, temps, remaining_temps, resolved_kernels, outcome,
          first, limits, type_changes, gtemps, host_constants, steps,
          buffer_args, loopy_work_size, size_per_work_item, offsets, arg_index,
          lang, barriers, instructions_in, instructions, barrier_index,
          loopy_opts, info, for_testing, specialization, specialized,
          gen_kernels, gen_depends_on, generate_all, make_stack, driver_kernels, created, compiled, resolution_kernels, phases,
          generator_name, driver_list, extra_kernels, call_instructions, extra_fake_kernels, emitted,
          merge_kernels, target_preambles, merge_readonly, merge_offsets, assembling_driver, preambles, inits, merge_instructions, merge_result>>

\* the variables of the argument resolution and the memory placement
ArgsMemVars == <<self_kernels, depends_on, extra_kernel_data, hoist_locals, kernel_type,
                 call, kernels, args, local, readonly, constants, valueargs, temps, remaining_temps, resolved_kernels,
                 first, limits, type_changes, gtemps, host_constants, steps>>

\* the variables of _get_working_buffer
BufferVars == <<buffer_args, loopy_work_size, size_per_work_item, offsets, arg_index>>

BufferIdle ==
    /\ buffer_args = <<>>
    /\ loopy_work_size = "None"
    /\ size_per_work_item = 0
    /\ offsets = <<>>
    /\ arg_index = 0

\* the variables of apply_barriers
BarrierVars == <<lang, barriers, instructions_in, instructions, barrier_index>>

BarrierIdle ==
    /\ lang = "c"
    /\ barriers = <<>>
    /\ instructions_in = <<>>
    /\ instructions = <<>>
    /\ barrier_index = 0

\* no options, no descriptor, no kernel, no call of apply_specialization yet
NoOptions ==
    [depth |-> 0, width |-> 0, unr |-> 0, ilp |-> FALSE, is_simd |-> FALSE, lang |-> "c"]

NoInfo == [var_name |-> "i", can_vectorize |-> TRUE, vectorization_specializer |-> "None"]

NoKernel == [inames |-> <<>>, fixed_up |-> FALSE, ggs |-> 0]

NotCalled == [outcome |-> "none", knl |-> NoKernel, specialization |-> <<>>]

\* the variables of apply_specialization
SpecializeVars == <<loopy_opts, info, for_testing, specialization, specialized>>

SpecializeIdle ==
    /\ loopy_opts = NoOptions
    /\ info = NoInfo
    /\ for_testing = FALSE
    /\ specialization = NotCalled
    /\ specialized = NotCalled

\* the variables of generate()
GenerateVars == <<gen_kernels, gen_depends_on, generate_all, make_stack, driver_kernels, created, compiled, resolution_kernels, phases>>

GenerateIdle ==
    /\ gen_kernels = <<>>
    /\ gen_depends_on = <<>>
    /\ generate_all = FALSE
    /\ make_stack = <<>>
    /\ driver_kernels = <<>>
    /\ created = {}
    /\ compiled = <<>>
    /\ resolution_kernels = <<>>
    /\ phases = <<>>

\* the variables of the driver assembly (_merge_kernels with for_driver)
DriverVars == <<generator_name, driver_list, extra_kernels, call_instructions, extra_fake_kernels, emitted>>

DriverIdle ==
    /\ generator_name = <<>>
    /\ driver_list = <<>>
    /\ extra_kernels = <<>>
    /\ call_instructions = <<>>
    /\ extra_fake_kernels = <<>>
    /\ emitted = <<>>

\* the variables of the code assembly of _merge_kernels
MergeVars == <<merge_kernels, target_preambles, merge_readonly, merge_offsets, assembling_driver, preambles, inits, merge_instructions, merge_result>>

MergeIdle ==
    /\ merge_kernels = <<>>
    /\ target_preambles = <<>>
    /\ merge_readonly = {}
    /\ merge_offsets = <<>>
    /\ assembling_driver = FALSE
    /\ preambles = <<>>
    /\ inits = <<>>
    /\ merge_instructions = <<>>
    /\ merge_result = <<>>

\* the variables the argument resolution and the memory placement leave alone
OtherParts == <<BufferVars, BarrierVars, SpecializeVars, GenerateVars, DriverVars, MergeVars>>

OtherPartsIdle == BufferIdle /\ BarrierIdle /\ SpecializeIdle /\ GenerateIdle /\ DriverIdle /\ MergeIdle

----------------------------------------------------------------------------
(* Bounds of the model *)

MaxKernels == 2

----------------------------------------------------------------------------
(* Generic helpers on Python lists *)

Contains(s, x) == \E i \in 1..Len(s) : s[i] = x

Range(s) == {s[i] : i \in 1..Len(s)}

RECURSIVE SeqSum(_)
SeqSum(s) == IF s = <<>> THEN 0 ELSE Head(s) + SeqSum(Tail(s))

RECURSIVE Flatten(_)
Flatten(ss) == IF ss = <<>> THEN <<>> ELSE Head(ss) \o Flatten(Tail(ss))

\* [x for x in s if not any(x == y for y in result so far)]
RECURSIVE Distinct(_, _)
Distinct(s, acc) ==
    IF s = <<>> THEN acc
    ELSE Distinct(Tail(s), IF Contains(acc, Head(s)) THEN acc ELSE Append(acc, Head(s)))

\* utils.partition(tosplit, predicate): (matching, not matching), order kept
partition(s, P(_)) == <<SelectSeq(s, P), SelectSeq(s, LAMBDA x : ~P(x))>>

\* every name of the model, in the order sorted() gives to Python strings
NameOrder == <<"a", "b", "c2x2", "c4", "c6", "k", "l", "n", "p", "sparse_jac_col_inds", "sparse_jac_row_inds", "t", "u", "w">>

\* sorted(set(x.name for x in s))
SortedNames(s) == SelectSeq(NameOrder, LAMBDA n : \E i \in 1..Len(s) : s[i].name = n)

----------------------------------------------------------------------------
(* loopy objects *)

ArrayArg(name, dtype, atomic, shape, scope) ==
    [cls |-> "ArrayArg", name |-> name, dtype |-> dtype, atomic |-> atomic,
     shape |-> shape, scope |-> scope, read_only |-> FALSE]

GlobalArg(name, dtype, atomic, shape) == ArrayArg(name, dtype, atomic, shape, "GLOBAL")

ValueArg(name, dtype) ==
    [cls |-> "ValueArg", name |-> name, dtype |-> dtype, atomic |-> FALSE,
     shape |-> <<>>, scope |-> "PRIVATE", read_only |-> FALSE]

TemporaryVariable(name, dtype, atomic, shape, scope, ro) ==
    [cls |-> "TemporaryVariable", name |-> name, dtype |-> dtype, atomic |-> atomic,
     shape |-> shape, scope |-> scope, read_only |-> ro]

\* isinstance(x, lp.KernelArgument)
IsKernelArgument(x) == x.cls \in {"ArrayArg", "ValueArg"}

IsValueArg(x) == x.cls = "ValueArg"

IsTemporaryVariable(x) == x.cls = "TemporaryVariable"

\* isinstance(x.dtype, AtomicNumpyType)
IsAtomic(x) == x.atomic

LoopKernel(name, kargs, ktemps, written) ==
    [name |-> name, args |-> kargs, temporary_variables |-> ktemps, written |-> written]

\* np.prod(x.shape)
RECURSIVE prod(_)
prod(shape) == IF shape = <<>> THEN 1 ELSE Head(shape) * prod(Tail(shape))


----------------------------------------------------------------------------
(* kernel_generator._compare_args *)

\* __atomify: arg.copy(dtype=to_loopy_type(arg.dtype, for_atomic=True)); the atomic
\* type of an atomic type is that type itself
atomify(arg) == [arg EXCEPT !.atomic = TRUE]

compare_args(arg1, arg2) == arg1 = arg2 \/ atomify(arg1) = atomify(arg2)

----------------------------------------------------------------------------
(* kernel_generator.__migrate_locals *)

\* __argify
argify(temp) == ArrayArg(temp.name, temp.dtype, temp.atomic, temp.shape, "LOCAL")

\* __migrate_locals without the filter on temporary_variables
migrate_keeps_temporaries(kernel, ldecls) ==
    [kernel EXCEPT
       !.args = kernel.args \o [i \in 1..Len(ldecls) |-> argify(ldecls[i])]]

migrate_locals(kernel, ldecls) ==
    LET names == {ldecls[i].name : i \in 1..Len(ldecls)}
    IN [kernel EXCEPT
          !.args = kernel.args \o [i \in 1..Len(ldecls) |-> argify(ldecls[i])],
          !.temporary_variables =
              SelectSeq(kernel.temporary_variables, LAMBDA v : v.name \notin names)]

----------------------------------------------------------------------------
(* kernel_generator._process_args *)

\* [arg for dummy in kernels for arg in dummy.args]
RECURSIVE all_args(_)
all_args(ks) == IF ks = <<>> THEN <<>> ELSE Head(ks).args \o all_args(Tail(ks))

\* [arg for dummy in kernels for arg in dummy.temporary_variables.values()]
RECURSIVE all_temps(_)
all_temps(ks) ==
    IF ks = <<>> THEN <<>> ELSE Head(ks).temporary_variables \o all_temps(Tail(ks))

\* knl.copy(args=[x if x != other else atomic for x in knl.args])
replace_arg(knl, other, atomic) ==
    [knl EXCEPT !.args = [j \in 1..Len(knl.args) |->
                            IF knl.args[j] # other THEN knl.args[j] ELSE atomic]]

\* lines 1225-1228: the loop runs over self.kernels and assigns into 'kernels'.
\* alias: 'kernels' and self.kernels are the same list object.
RECURSIVE rewrite_kernels(_, _, _, _, _, _)
rewrite_kernels(i, ks, selfk, alias, other, atomic) ==
    IF i > Len(selfk) THEN [err |-> "none", kernels |-> ks, self_kernels |-> selfk]
    ELSE IF ~Contains(selfk[i].args, other)
         THEN rewrite_kernels(i + 1, ks, selfk, alias, other, atomic)
    ELSE IF i > Len(ks)
         THEN [err |-> "IndexError", kernels |-> ks, self_kernels |-> selfk]
    ELSE LET new == [ks EXCEPT ![i] = replace_arg(selfk[i], other, atomic)]
         IN rewrite_kernels(i + 1, new, IF alias THEN new ELSE selfk, alias, other, atomic)

\* lines 1195-1198
same_name_args(allargs, name) ==
    Distinct(SelectSeq(allargs, LAMBDA x : x.name = name), <<>>)

\* lines 1201-1202: the first atomic variant, as a list of at most one element
first_atomic(same_name) ==
    LET at == SelectSeq(same_name, IsAtomic) IN IF at = <<>> THEN <<>> ELSE <<at[1]>>

\* resolvable without the test len(same_name) > 2 of line 1209
resolvable_any_count(same_name) ==
    /\ first_atomic(same_name) # <<>>
    /\ LET atomic == first_atomic(same_name)[1]
           other == SelectSeq(same_name, LAMBDA x : x # atomic)[1]
       IN compare_args(other, atomic)

\* lines 1199-1218: can the variants of one name be resolved
resolvable(same_name) ==
    /\ first_atomic(same_name) # <<>>
    /\ Len(same_name) <= 2
    /\ LET atomic == first_atomic(same_name)[1]
           other == SelectSeq(same_name, LAMBDA x : x # atomic)[1]
       IN compare_args(other, atomic)

\* lines 1194-1233, one iteration of the loop over nameset
resolve_name(st, name, allargs, alias) ==
    LET same_name == same_name_args(allargs, name)
    IN IF Len(same_name) = 1
       THEN [st EXCEPT !.kernel_data = Append(@, same_name[1])]
       ELSE IF ~resolvable(same_name) THEN [st EXCEPT !.err = "Exception"]
       ELSE LET atomic == first_atomic(same_name)[1]
                other == SelectSeq(same_name, LAMBDA x : x # atomic)[1]
                rw == rewrite_kernels(1, st.kernels, st.self_kernels, alias, other, atomic)
                \* same_name.remove(other); same_name.pop()
                left == SelectSeq(same_name, LAMBDA x : x # other)
            IN [err |-> rw.err, kernels |-> rw.kernels, self_kernels |-> rw.self_kernels,
                kernel_data |-> IF rw.err = "none"
                                THEN Append(st.kernel_data, left[Len(left)])
                                ELSE st.kernel_data]

RECURSIVE scan_names(_, _, _, _, _)
scan_names(n, nameset, allargs, alias, st) ==
    IF n > Len(nameset) \/ st.err # "none" THEN st
    ELSE scan_names(n + 1, nameset, allargs, alias,
                    resolve_name(st, nameset[n], allargs, alias))

\* lines 1240-1244
readonly_names(ks) ==
    {a.name : a \in {x \in Range(all_args(ks)) :
                        /\ ~ \E i \in 1..Len(ks) : x.name \in ks[i].written
                        /\ ~IsValueArg(x)}}

\* compared_temp without the scope tests
compared_temp_any_scope(x) == IsTemporaryVariable(x)

\* the filter of lines 1249-1251 and 1253-1256
compared_temp(x) ==
    IsTemporaryVariable(x) /\ x.scope # "PRIVATE" /\ x.scope # "auto"

\* lines 1247-1257
gather_temps(ks, extra) ==
    SelectSeq(all_temps(ks), compared_temp) \o SelectSeq(extra, compared_temp)

\* lines 1261-1262 for one name
temps_conflict(copy, name) ==
    LET same_names == SelectSeq(copy, LAMBDA x : x.name = name)
    IN Len(same_names) > 1 /\ \E i \in 2..Len(same_names) : same_names[i] # same_names[1]

\* lines 1259-1266
RECURSIVE scan_temps(_, _, _, _)
scan_temps(n, nameset, copy, st) ==
    IF n > Len(nameset) \/ st.err # "none" THEN st
    ELSE scan_temps(n + 1, nameset, copy,
            IF temps_conflict(copy, nameset[n]) THEN [st EXCEPT !.err = "Exception"]
            ELSE [st EXCEPT !.temps =
                     Append(@, SelectSeq(copy, LAMBDA x : x.name = nameset[n])[1])])

\* lines 1272-1281
RECURSIVE hoist(_, _)
hoist(i, st) ==
    IF i > Len(st.kernels) THEN st
    ELSE LET knl == st.kernels[i]
             local_temps == SelectSeq(knl.temporary_variables, LAMBDA x : x.scope = "LOCAL")
         IN IF local_temps = <<>> THEN hoist(i + 1, st)
            ELSE hoist(i + 1,
                   [kernels |-> [st.kernels EXCEPT ![i] = migrate_locals(knl, local_temps)],
                    local |-> st.local \o local_temps,
                    temps |-> SelectSeq(st.temps, LAMBDA x : ~Contains(local_temps, x))])

\* what a call that raised leaves behind
raised(err, where, ks, selfk) ==
    [outcome |-> err, where |-> where, kernels |-> ks, self_kernels |-> selfk,
     args |-> <<>>, local |-> <<>>, readonly |-> {}, constants |-> <<>>,
     valueargs |-> <<>>, temps |-> <<>>, remaining_temps |-> <<>>,
     resolved_kernels |-> <<>>]

\* _process_args(kernels=param, use_subkernels): mode "default" is the call without
\* a list (or with an empty one), "self" the call with self.kernels itself and
\* "list" the call with another list
process_args(selfk, deps, extra, hoisting, mode, param, use_subkernels) ==
    LET alias == (mode = "self")
        k0 == IF mode = "list" THEN param ELSE selfk
        \* kernels += [knl for dep in self.depends_on for knl in dep.kernels]
        k1 == IF use_subkernels THEN k0 \o Flatten(deps) ELSE k0
        s1 == IF alias THEN k1 ELSE selfk
        allargs == all_args(k1) \o SelectSeq(extra, IsKernelArgument)
        r == scan_names(1, SortedNames(allargs), allargs, alias,
                        [err |-> "none", kernels |-> k1, self_kernels |-> s1,
                         kernel_data |-> <<>>])
    IN IF r.err # "none" THEN raised(r.err, "args", r.kernels, r.self_kernels)
       ELSE
       LET parts == partition(r.kernel_data, IsValueArg)
           ro == readonly_names(r.kernels)
           copy == gather_temps(r.kernels, extra)
           t == scan_temps(1, SortedNames(copy), copy, [err |-> "none", temps |-> <<>>])
       IN IF t.err # "none" THEN raised(t.err, "temps", r.kernels, r.self_kernels)
          ELSE
          LET h == IF hoisting
                   THEN hoist(1, [kernels |-> r.kernels, local |-> <<>>, temps |-> t.temps])
                   ELSE [kernels |-> r.kernels, local |-> <<>>, temps |-> t.temps]
              split == partition(h.temps, LAMBDA x : x.read_only)
          IN [outcome |-> "ok", where |-> "return", kernels |-> h.kernels,
              self_kernels |-> IF alias THEN h.kernels ELSE r.self_kernels,
              args |-> parts[2], local |-> h.local, readonly |-> ro,
              constants |-> split[1], valueargs |-> parts[1], temps |-> t.temps,
              remaining_temps |-> split[2], resolved_kernels |-> r.kernels]

----------------------------------------------------------------------------
(* The inputs of the argument resolution *)

kN == GlobalArg("k", "float64", FALSE, <<2>>)
kA == GlobalArg("k", "float64", TRUE, <<2>>)
kS == GlobalArg("k", "float64", TRUE, <<3>>)
kI == GlobalArg("k", "int32", FALSE, <<2>>)
aN == GlobalArg("a", "float64", FALSE, <<4>>)
aA == GlobalArg("a", "float64", TRUE, <<4>>)
bN == GlobalArg("b", "float64", FALSE, <<2>>)
nV == ValueArg("n", "int32")

tC  == TemporaryVariable("t", "float64", FALSE, <<2>>, "GLOBAL", TRUE)
tCA == TemporaryVariable("t", "float64", TRUE, <<2>>, "GLOBAL", TRUE)
lL  == TemporaryVariable("l", "float64", FALSE, <<2>>, "LOCAL", FALSE)
lL3 == TemporaryVariable("l", "float64", FALSE, <<3>>, "LOCAL", FALSE)
pP  == TemporaryVariable("p", "float64", FALSE, <<1>>, "PRIVATE", FALSE)
pP2 == TemporaryVariable("p", "int32", FALSE, <<2>>, "PRIVATE", FALSE)
uU  == TemporaryVariable("u", "float64", FALSE, <<1>>, "auto", FALSE)
uU2 == TemporaryVariable("u", "float64", FALSE, <<2>>, "auto", FALSE)
gW  == TemporaryVariable("w", "float64", FALSE, <<2>>, "GLOBAL", FALSE)

\* self.namestore.jac_row_inds([''])[0] and self.namestore.jac_col_inds([''])[0] of a
\* sparse Jacobian (lines 351-352): the index arrays, constant data of the kernels
jac_row_inds ==
    TemporaryVariable("sparse_jac_row_inds", "int32", FALSE, <<8>>, "GLOBAL", TRUE)

jac_col_inds ==
    TemporaryVariable("sparse_jac_col_inds", "int32", FALSE, <<8>>, "GLOBAL", TRUE)

\* lines 343 and 349-352: __init__ copies the extra kernel data it is given and, for
\* a sparse Jacobian (namestore.jac is a jac_creator), adds the index arrays
init_extra_kernel_data(given, sparse) ==
    given \o (IF sparse THEN <<jac_row_inds, jac_col_inds>> ELSE <<>>)

\* kernels whose arguments collide in every way the resolution distinguishes
ArgKernels ==
    { LoopKernel("K1", <<kN>>, <<>>, {"k"}),
      LoopKernel("K2", <<kA>>, <<>>, {"k"}),
      LoopKernel("K3", <<kS>>, <<>>, {}),
      LoopKernel("K4", <<kI>>, <<>>, {}),
      LoopKernel("K5", <<kN, aN>>, <<>>, {}),
      LoopKernel("K6", <<aA, nV>>, <<>>, {"a"}) }

ArgExtras == { <<>>, <<kA>>, <<kN>>, <<bN>> }

\* kernels whose temporaries collide
TempKernels ==
    { LoopKernel("T1", <<aN>>, <<tC>>, {"a"}),
      LoopKernel("T2", <<aN>>, <<tCA>>, {}),
      LoopKernel("T3", <<aN>>, <<tC, lL>>, {"l"}),
      LoopKernel("T4", <<aN>>, <<lL3, pP>>, {"p"}),
      LoopKernel("T5", <<aN, nV>>, <<pP2, uU, gW>>, {"w"}),
      LoopKernel("T6", <<aN>>, <<uU2, lL>>, {"a", "l"}) }

TempExtras == { <<>>, <<tC>>, <<lL>>, <<pP2>> }

\* the kernels that dependencies hold, and the kernels a caller passes as a list
DepNames == {"K1", "K2", "K3", "T2", "T3", "T4"}

PassedNames == {"K1", "K2", "K6", "T1", "T3", "T5"}

\* the lists of 1..n elements of S
ListsOf(S, n) == UNION {[1..m -> S] : m \in 1..n}

NoResult ==
    [outcome |-> "none", args |-> <<>>, local |-> <<>>, readonly |-> {},
     constants |-> <<>>, valueargs |-> <<>>, kernels |-> <<>>]

NoCall ==
    [mode |-> "none", use_subkernels |-> FALSE, param |-> <<>>, self_before |-> <<>>]

NoLimits == [m_global |-> 0, m_local |-> 0, m_constant |-> 0]

\* the variables _process_args does not touch
MemoryIdle ==
    /\ limits = NoLimits
    /\ type_changes = <<>>
    /\ gtemps = <<>>
    /\ host_constants = <<>>
    /\ steps = 0

\* a generator (own kernels, dependencies, extra kernel data) before any call
InitGenerator(K, X, hoisting) ==
    /\ self_kernels \in ListsOf(K, MaxKernels)
    /\ depends_on \in {<<>>} \cup {<< <<k>> >> : k \in {d \in K : d.name \in DepNames}}
    /\ extra_kernel_data \in {init_extra_kernel_data(x, sparse) : x \in X, sparse \in BOOLEAN}
    /\ hoist_locals \in hoisting
    /\ kernel_type = "species_rates"
    /\ pc = "start"
    /\ call = NoCall
    /\ kernels = <<>>
    /\ args = <<>>
    /\ local = <<>>
    /\ readonly = {}
    /\ constants = <<>>
    /\ valueargs = <<>>
    /\ temps = <<>>
    /\ remaining_temps = <<>>
    /\ resolved_kernels = <<>>
    /\ outcome = "none"
    /\ first = NoResult
    /\ MemoryIdle
    /\ OtherPartsIdle

InitArgs ==
    \/ InitGenerator(ArgKernels, ArgExtras, {FALSE})
    \/ InitGenerator(TempKernels, TempExtras, BOOLEAN)

\* the kernels a caller can pass: kernels of the family of the generator
Palette ==
    {k \in (IF self_kernels[1] \in ArgKernels THEN ArgKernels ELSE TempKernels) :
        k.name \in PassedNames}

\* the effect of one call of _process_args on the state
RunProcessArgs(mode, param, use_subkernels) ==
    \E r \in {process_args(self_kernels, depends_on, extra_kernel_data, hoist_locals,
                            mode, param, use_subkernels)} :
       /\ call' = [mode |-> mode, use_subkernels |-> use_subkernels,
                   param |-> IF mode = "list" THEN param ELSE self_kernels,
                   self_before |-> self_kernels]
       /\ self_kernels' = r.self_kernels
       /\ kernels' = r.kernels
       /\ args' = r.args
       /\ local' = r.local
       /\ readonly' = r.readonly
       /\ constants' = r.constants
       /\ valueargs' = r.valueargs
       /\ temps' = r.temps
       /\ remaining_temps' = r.remaining_temps
       /\ resolved_kernels' = r.resolved_kernels
       /\ outcome' = IF r.outcome = "Exception"
                     THEN (IF r.where = "args" THEN "ArgConflict" ELSE "TempConflict")
                     ELSE r.outcome

\* self._process_args(kernels, use_subkernels)
ProcessArgs ==
    /\ UNCHANGED OtherParts
    /\ pc = "start"
    /\ \E mode \in {"default", "self", "list"}, use_subkernels \in BOOLEAN :
         \E param \in IF mode = "list" THEN {<<k>> : k \in Palette} ELSE {<<>>} :
            RunProcessArgs(mode, param, use_subkernels)
    /\ pc' = "args_done"
    /\ UNCHANGED <<depends_on, extra_kernel_data, hoist_locals, kernel_type, first,
                   limits, type_changes, gtemps, host_constants, steps>>

\* the arrays add_jacobian is called with
Jacobians == {kA, bN}

\* the longest list of extra kernel data a jacobian is added to
MaxExtraData == 1

\* autodiff_kernel_generator.add_jacobian(jacobian), line 2354; the generator is a
\* c_kernel_generator, which does not hoist
AddJacobian ==
    /\ UNCHANGED OtherParts
    /\ pc = "start"
    /\ ~hoist_locals
    /\ Len(extra_kernel_data) <= MaxExtraData
    /\ \E jacobian \in Jacobians : extra_kernel_data' = Append(extra_kernel_data, jacobian)
    /\ UNCHANGED <<pc, self_kernels, depends_on, hoist_locals, kernel_type, call, kernels,
                   args, local, readonly, constants, valueargs, temps, remaining_temps,
                   resolved_kernels, outcome, first, limits, type_changes, gtemps,
                   host_constants, steps>>

\* the same call once more, on the lists the first call left behind
ProcessArgsAgain ==
    /\ UNCHANGED OtherParts
    /\ pc = "args_done"
    /\ outcome = "ok"
    /\ first' = [outcome |-> outcome, args |-> args, local |-> local,
                 readonly |-> readonly, constants |-> constants,
                 valueargs |-> valueargs, kernels |-> kernels]
    /\ RunProcessArgs(call.mode, IF call.mode = "list" THEN kernels ELSE <<>>,
                      call.use_subkernels)
    /\ pc' = "args_again"
    /\ UNCHANGED <<depends_on, extra_kernel_data, hoist_locals, kernel_type,
                   limits, type_changes, gtemps, host_constants, steps>>

NextArgs == AddJacobian \/ ProcessArgs \/ ProcessArgsAgain

SpecArgs == InitArgs /\ [][NextArgs]_vars

----------------------------------------------------------------------------
\* no call of _process_args or _process_memory is modelled
\* no argument resolution and no memory placement is under way
ResolutionIdle ==
    /\ self_kernels = <<>>
    /\ depends_on = <<>>
    /\ extra_kernel_data = <<>>
    /\ hoist_locals = FALSE
    /\ call = NoCall
    /\ kernels = <<>>
    /\ args = <<>>
    /\ local = <<>>
    /\ readonly = {}
    /\ constants = <<>>
    /\ valueargs = <<>>
    /\ temps = <<>>
    /\ remaining_temps = <<>>
    /\ resolved_kernels = <<>>
    /\ first = NoResult
    /\ MemoryIdle

ArgsMemIdle == ResolutionIdle /\ kernel_type = "species_rates"

----------------------------------------------------------------------------
(* What a call of _process_args was given *)

\* the kernel set the last call processed, as it was when the call started
InputKernels ==
    call.param \o (IF call.use_subkernels THEN Flatten(depends_on) ELSE <<>>)

\* every argument object gathered by the call (lines 1185-1189)
InputArgs == all_args(InputKernels) \o SelectSeq(extra_kernel_data, IsKernelArgument)

ArgNames == {InputArgs[i].name : i \in 1..Len(InputArgs)}

\* the distinct argument objects of one name
Variants(n) == {x \in Range(InputArgs) : x.name = n}

\* exactly two variants, identical except that one is the atomic variant of the other
AtomicPair(V) ==
    /\ Cardinality(V) = 2
    /\ \E x, y \in V : ~IsAtomic(x) /\ IsAtomic(y) /\ [x EXCEPT !.atomic = TRUE] = y

NonAtomicOf(V) == CHOOSE x \in V : ~IsAtomic(x)

AtomicOf(V) == CHOOSE y \in V : IsAtomic(y)

\* every name has one variant or an atomic pair
ArgsResolvable ==
    \A n \in ArgNames : Cardinality(Variants(n)) = 1 \/ AtomicPair(Variants(n))

\* the temporaries the call compares (non-private, non-automatic)
InputTemps ==
    SelectSeq(all_temps(InputKernels) \o SelectSeq(extra_kernel_data, IsTemporaryVariable),
              LAMBDA x : x.scope \notin {"PRIVATE", "auto"})

\* two compared temporaries of one name differ
TempsDiffer ==
    \E i, j \in 1..Len(InputTemps) :
        InputTemps[i].name = InputTemps[j].name /\ InputTemps[i] # InputTemps[j]

\* the canonical argument list returned: array arguments and value arguments
Canonical == args \o valueargs

Returned == pc = "args_done" /\ outcome = "ok"

\* the arguments of the canonical list that carry one name
CanonicalOf(n) == SelectSeq(Canonical, LAMBDA x : x.name = n)

----------------------------------------------------------------------------
(* Claims about _process_args *)

\* C1: whenever a name has exactly two distinct argument objects that are identical
\* except that one has the atomic variant of the other's dtype (and nothing else
\* conflicts), resolution succeeds, the canonical argument list contains exactly one
\* argument of that name, and that argument is the atomic variant.
C1_AtomicVariantIsCanonical ==
    pc = "args_done" /\ ArgsResolvable /\ ~TempsDiffer =>
        \A n \in ArgNames : AtomicPair(Variants(n)) =>
            /\ outcome = "ok"
            /\ CanonicalOf(n) = <<AtomicOf(Variants(n))>>

\* C2: after an atomic/non-atomic collision was resolved, no kernel of the processed
\* kernel set (the kernels passed in plus the dependency kernels) still references
\* the non-atomic object: every kernel that used it uses the atomic one, at the same
\* position of the kernel list.
C2_NoKernelKeepsNonAtomic ==
    Returned =>
        \A n \in ArgNames : AtomicPair(Variants(n)) =>
            /\ Len(kernels) = Len(InputKernels)
            /\ \A i \in 1..Len(InputKernels) :
                 /\ kernels[i].name = InputKernels[i].name
                 /\ ~Contains(kernels[i].args, NonAtomicOf(Variants(n)))
                 /\ \A j \in 1..Len(InputKernels[i].args) :
                      InputKernels[i].args[j] = NonAtomicOf(Variants(n))
                         => kernels[i].args[j] = AtomicOf(Variants(n))

\* the variants of one name that the resolution must refuse
Irreconcilable(V) ==
    \/ Cardinality(V) > 2
    \/ \E x, y \in V : x # y /\ (x.shape # y.shape \/ x.dtype # y.dtype
                                 \/ (~IsAtomic(x) /\ ~IsAtomic(y)))

\* C3: resolution raises, and returns no canonical list, whenever the arguments
\* sharing a name include two variants of different shape, two of different base
\* dtype, two distinct non-atomic variants, or more than two distinct variants.
C3_ConflictIsFatal ==
    pc = "args_done" /\ (\E n \in ArgNames : Irreconcilable(Variants(n))) =>
        /\ outcome \in {"ArgConflict", "IndexError"}
        /\ Canonical = <<>>

C3_Witness ==
    /\ pc = "args_done"
    /\ outcome = "ArgConflict"
    /\ \E n \in ArgNames : Cardinality(Variants(n)) > 2
    /\ \E n \in ArgNames : \E x, y \in Variants(n) : IsAtomic(y) /\ x.shape # y.shape

\* C4: a second run of _process_args on the kernel set produced by a first successful
\* run yields the same canonical argument set, read-only name set, constant set and
\* value-argument set.
C4_Idempotent ==
    pc = "args_again" =>
        /\ outcome = "ok"
        /\ Range(args) = Range(first.args)
        /\ readonly = first.readonly
        /\ Range(constants) = Range(first.constants)
        /\ Range(valueargs) = Range(first.valueargs)

\* C5: two same-named temporaries of non-private, non-automatic scope that differ in
\* any attribute (atomicity included) are a fatal error; temporaries of private or
\* automatic scope never cause the conflict; otherwise exactly one temporary is kept
\* for every name.
C5_TemporaryResolution ==
    pc = "args_done" =>
        /\ TempsDiffer => outcome \in {"TempConflict", "ArgConflict", "IndexError"}
        /\ outcome = "TempConflict" => TempsDiffer
        /\ outcome = "ok" =>
             /\ \A i \in 1..Len(InputTemps) :
                  SelectSeq(temps, LAMBDA x : x.name = InputTemps[i].name)
                     = <<InputTemps[i]>>
             /\ Range(temps) \subseteq Range(InputTemps)

C5_Witness ==
    /\ pc = "args_done"
    /\ outcome = "TempConflict"
    /\ \E i, j \in 1..Len(InputTemps) :
         InputTemps[i] # InputTemps[j] /\ atomify(InputTemps[i]) = InputTemps[j]
    /\ \E x, y \in Range(all_temps(InputKernels)) :
         x.scope = "PRIVATE" /\ x.name = y.name /\ x # y

\* C6: the read-only name set returned is exactly the set of names of the canonical
\* array arguments (injected extra arguments included) that appear in no processed
\* kernel's write-set.
C6_ReadonlyIsUnwrittenArrays ==
    Returned =>
        readonly = {x.name : x \in {y \in Range(args) :
                                       \A i \in 1..Len(kernels) : y.name \notin kernels[i].written}}

----------------------------------------------------------------------------
(* memory_limits (pyjac.kernel_utils.memory_manager): the memory budget *)

\* lines 1324-1334: the arrays of every memory class
mem_types(a, l, c) ==
    [m_global |-> SelectSeq(a, LAMBDA x : ~IsValueArg(x)), m_local |-> l, m_constant |-> c]

\* the number of elements of a list of arrays
footprint(arrays) == SeqSum([i \in 1..Len(arrays) |-> prod(arrays[i].shape)])

\* memory_limits.can_fit(with_type_changes): one verdict per memory class, with the
\* arrays of 'changes' counted in the global class instead of their own
can_fit(mt, lim, changes) ==
    LET stays(x) == ~Contains(changes, x)
    IN << footprint(SelectSeq(mt.m_global, stays)) + footprint(changes) <= lim.m_global,
          footprint(SelectSeq(mt.m_local, stays)) <= lim.m_local,
          footprint(SelectSeq(mt.m_constant, stays)) <= lim.m_constant >>

\* all(...)
all(verdicts) == \A i \in 1..Len(verdicts) : verdicts[i]

----------------------------------------------------------------------------
(* kernel_generator._process_memory *)

\* 'sparse_jac' in name, for the names of the model
has_sparse_jac(name) == name \in {"sparse_jac_row_inds", "sparse_jac_col_inds"}

\* insert_by_size without the key: the list keeps its order
insert_at_end(sorted, x) == Append(sorted, x)

\* sorted(gtemps, key=lambda x: np.prod(x.shape), reverse=True): a stable sort, x is
\* put behind every element at least as large
insert_by_size(sorted, x) ==
    LET ahead == SelectSeq(sorted, LAMBDA y : prod(y.shape) >= prod(x.shape))
        behind == SelectSeq(sorted, LAMBDA y : prod(y.shape) < prod(x.shape))
    IN ahead \o <<x>> \o behind

RECURSIVE sort_by_size(_, _)
sort_by_size(s, acc) ==
    IF s = <<>> THEN acc ELSE sort_by_size(Tail(s), insert_by_size(acc, Head(s)))

\* lines 1350-1352
promotion_candidates(c) ==
    sort_by_size(SelectSeq(c, LAMBDA x : ~has_sparse_jac(x.name)), <<>>)

\* kernel_generator.name
name(ktype) == IF ktype = "dummy" THEN "RecursionError" ELSE ktype

MemoryVars == <<limits, type_changes, gtemps, host_constants, steps>>

Generator == <<self_kernels, depends_on, extra_kernel_data, hoist_locals, kernel_type,
               call, first, temps, remaining_temps, resolved_kernels, local, valueargs>>

\* lines 1337-1344: everything fits, nothing is promoted, line 1382 returns
MemoryFits ==
    /\ UNCHANGED OtherParts
    /\ pc = "mem_start"
    /\ all(can_fit(mem_types(args, local, constants), limits, <<>>))
    /\ pc' = "mem_end"
    /\ outcome' = "ok"
    /\ host_constants' = <<>>
    /\ UNCHANGED <<Generator, kernels, args, readonly, constants, limits, type_changes,
                   gtemps, steps>>

\* lines 1344-1354 with a candidate: the largest one is promoted
FirstPromotion ==
    /\ UNCHANGED OtherParts
    /\ pc = "mem_start"
    /\ ~all(can_fit(mem_types(args, local, constants), limits, <<>>))
    /\ promotion_candidates(constants) # <<>>
    /\ type_changes' = <<Head(promotion_candidates(constants))>>
    /\ gtemps' = Tail(promotion_candidates(constants))
    /\ steps' = 1
    /\ pc' = "mem_loop"
    /\ UNCHANGED <<Generator, kernels, args, readonly, constants, limits, host_constants,
                   outcome>>

\* lines 1344-1353 without a candidate: gtemps[0] of an empty list
EmptyPool ==
    /\ UNCHANGED OtherParts
    /\ pc = "mem_start"
    /\ ~all(can_fit(mem_types(args, local, constants), limits, <<>>))
    /\ promotion_candidates(constants) = <<>>
    /\ outcome' = "IndexError"
    /\ pc' = "mem_end"
    /\ UNCHANGED <<Generator, kernels, args, readonly, constants, MemoryVars>>

\* lines 1355-1364: one more array is promoted
NextPromotion ==
    /\ UNCHANGED OtherParts
    /\ pc = "mem_loop"
    /\ ~all(can_fit(mem_types(args, local, constants), limits, type_changes))
    /\ gtemps # <<>>
    /\ type_changes' = Append(type_changes, Head(gtemps))
    /\ gtemps' = Tail(gtemps)
    /\ steps' = steps + 1
    /\ UNCHANGED <<Generator, kernels, args, readonly, constants, limits, host_constants,
                   outcome, pc>>

\* lines 1356-1361: no candidate is left; the message formats self.name
CannotFit ==
    /\ UNCHANGED OtherParts
    /\ pc = "mem_loop"
    /\ ~all(can_fit(mem_types(args, local, constants), limits, type_changes))
    /\ gtemps = <<>>
    /\ outcome' = IF name(kernel_type) = "RecursionError" THEN "RecursionError"
                  ELSE "Exception"
    /\ pc' = "mem_end"
    /\ UNCHANGED <<Generator, kernels, args, readonly, constants, MemoryVars>>

\* lines 1355, 1367-1370: the loop is left with everything fitting; the first array
\* is appended to args, then readonly[-1] subscripts a set
PhysicalChange ==
    /\ UNCHANGED OtherParts
    /\ pc = "mem_loop"
    /\ all(can_fit(mem_types(args, local, constants), limits, type_changes))
    /\ args' = Append(args, GlobalArg(type_changes[1].name, type_changes[1].dtype,
                                      type_changes[1].atomic, type_changes[1].shape))
    /\ outcome' = "TypeError"
    /\ pc' = "mem_end"
    /\ UNCHANGED <<Generator, kernels, readonly, constants, MemoryVars>>

----------------------------------------------------------------------------
(* kernel_generator._migrate_host_constants *)

migrate_host_constants(kernel, hosts) ==
    LET transferred == {hosts[i].name : i \in {j \in 1..Len(hosts) :
                            \E v \in Range(kernel.temporary_variables) :
                                v.name = hosts[j].name}}
        moved == SelectSeq(kernel.temporary_variables, LAMBDA v : v.name \in transferred)
    IN IF transferred # {}
       THEN [kernel EXCEPT
               !.temporary_variables = SelectSeq(@, LAMBDA v : v.name \notin transferred),
               !.args = @ \o [i \in 1..Len(moved) |->
                                 GlobalArg(moved[i].name, moved[i].dtype, moved[i].atomic,
                                           moved[i].shape)]]
       ELSE kernel

\* _merge_kernels, lines 1597-1599
MigrateHostConstants ==
    /\ UNCHANGED OtherParts
    /\ pc = "mem_end"
    /\ outcome = "ok"
    /\ kernels' = [i \in 1..Len(kernels) |->
                      migrate_host_constants(kernels[i], host_constants)]
    /\ self_kernels' = IF call.mode = "self" THEN kernels' ELSE self_kernels
    /\ pc' = "migrated"
    /\ UNCHANGED <<depends_on, extra_kernel_data, hoist_locals, kernel_type, call, first,
                   temps, remaining_temps, resolved_kernels, local, valueargs, args, readonly, constants, outcome, MemoryVars>>

----------------------------------------------------------------------------
(* The inputs of the memory placement *)

c6 == TemporaryVariable("c6", "float64", FALSE, <<6>>, "GLOBAL", TRUE)
c4 == TemporaryVariable("c4", "float64", FALSE, <<4>>, "GLOBAL", TRUE)
c2x2 == TemporaryVariable("c2x2", "float64", FALSE, <<2, 2>>, "GLOBAL", TRUE)
sJ == jac_row_inds

MemKernels ==
    { LoopKernel("M1", <<aN>>, <<c6, c4>>, {"a"}),
      LoopKernel("M2", <<aN>>, <<c4, sJ>>, {}),
      LoopKernel("M3", <<bN>>, <<c2x2, lL>>, {"b", "l"}),
      LoopKernel("M4", <<bN, nV>>, <<sJ>>, {"b"}),
      LoopKernel("M5", <<aN>>, <<>>, {"a"}),
      LoopKernel("M6", <<kN>>, <<c6, c2x2, c4>>, {"k"}) }

MemLimits ==
    [m_global : {5, 40}, m_local : {1, 40}, m_constant : {3, 6, 40}]

\* _merge_kernels(False, self.kernels) after _process_args(kernels) returned
InitMem ==
    \E ks \in ListsOf(MemKernels, MaxKernels), h \in BOOLEAN :
        \E r \in {process_args(ks, <<>>, <<>>, h, "self", <<>>, TRUE)} :
           /\ r.outcome = "ok"
           /\ self_kernels = r.self_kernels
           /\ kernels = r.kernels
           /\ args = r.args
           /\ local = r.local
           /\ readonly = r.readonly
           /\ constants = r.constants
           /\ valueargs = r.valueargs
           /\ temps = r.temps
           /\ remaining_temps = r.remaining_temps
           /\ resolved_kernels = r.resolved_kernels
           /\ call = [mode |-> "self", use_subkernels |-> TRUE, param |-> ks,
                      self_before |-> ks]
           /\ hoist_locals = h
           /\ depends_on = <<>>
           /\ extra_kernel_data = <<>>
           /\ kernel_type \in {"dummy", "species_rates"}
           /\ first = NoResult
           /\ outcome = "none"
           /\ pc = "mem_start"
           /\ limits \in MemLimits
           /\ type_changes = <<>>
           /\ gtemps = <<>>
           /\ host_constants = <<>>
           /\ steps = 0
           /\ OtherPartsIdle

NextMem ==
    \/ MemoryFits
    \/ FirstPromotion
    \/ EmptyPool
    \/ NextPromotion
    \/ CannotFit
    \/ PhysicalChange
    \/ MigrateHostConstants

SpecMem == InitMem /\ [][NextMem]_vars

----------------------------------------------------------------------------
(* Claims about _process_memory *)

\* the constants that may be promoted
Eligible == {c \in Range(constants) : ~has_sparse_jac(c.name)}

\* the arrays promoted before step i
PromotedBefore(i) == {type_changes[j] : j \in 1..(i - 1)}

\* the promotion loop was left with every memory class fitting
PromotionFitted ==
    /\ type_changes # <<>>
    /\ all(can_fit(mem_types(SelectSeq(args, LAMBDA x : x.name \notin
                                 {type_changes[i].name : i \in 1..Len(type_changes)}),
                             local, constants), limits, type_changes))

\* C7: constant arrays are promoted in descending order of element count: the array
\* promoted at every step has the largest element count among the eligible constants
\* not promoted before, and an array whose name contains 'sparse_jac' is never
\* promoted.
C7_LargestEligibleFirst ==
    \A i \in 1..Len(type_changes) :
        /\ type_changes[i] \in Eligible \ PromotedBefore(i)
        /\ \A c \in Eligible \ PromotedBefore(i) :
              prod(c.shape) <= prod(type_changes[i].shape)

C7_Witness ==
    /\ Len(type_changes) >= 2
    /\ prod(type_changes[1].shape) > prod(type_changes[2].shape)
    /\ \E c \in Range(constants) :
          has_sparse_jac(c.name) /\ prod(c.shape) > prod(type_changes[1].shape)
    /\ \E c \in Eligible : c \notin Range(type_changes)

\* C8: greedy promotion takes at most N promotion steps for N eligible candidates and
\* ends in exactly one of two outcomes: every memory class fits (normal return), or
\* the 'cannot fit in memory' error is raised; also for an empty candidate pool and
\* when the class that does not fit is not the constant class.
C8_FitsOrCannotFit ==
    /\ steps <= Cardinality(Eligible)
    /\ pc = "mem_end" =>
         \/ outcome = "ok" /\ all(can_fit(mem_types(args, local, constants), limits,
                                          host_constants))
         \/ outcome = "Exception"

\* C9: each promotion moves exactly one array out of the constant class and into the
\* global class: when _process_memory ends after promoting, it returns, every promoted
\* array is in the returned argument list and in the returned host constants, and
\* none is left in the returned constants.
C9_PromotedLeaveConstants ==
    pc = "mem_end" /\ PromotionFitted =>
        /\ outcome = "ok"
        /\ \A i \in 1..Len(type_changes) :
             /\ Contains(args, GlobalArg(type_changes[i].name, type_changes[i].dtype,
                                         type_changes[i].atomic, type_changes[i].shape))
             /\ Contains(host_constants, type_changes[i])
             /\ ~Contains(constants, type_changes[i])
        /\ Len(host_constants) = Len(type_changes)

\* C10: whenever memory placement promotes at least one constant array it completes
\* normally and every promoted array (a) is a global argument of the argument list,
\* (b) has its name in the read-only set, (c) is in the host constants, and (d) is an
\* argument instead of a temporary in every kernel that declared it, the other
\* kernels being unchanged.
C10_PromotedBecomeReadonlyGlobals ==
    /\ pc = "mem_end" /\ PromotionFitted =>
         /\ outcome = "ok"
         /\ \A i \in 1..Len(type_changes) :
              /\ \E x \in Range(args) : x.name = type_changes[i].name /\ x.scope = "GLOBAL"
              /\ type_changes[i].name \in readonly
              /\ Contains(host_constants, type_changes[i])
    /\ pc = "migrated" =>
         /\ Range(host_constants) = Range(type_changes)
         /\ \A k \in 1..Len(kernels) : \A h \in Range(host_constants) :
              /\ ~ \E v \in Range(kernels[k].temporary_variables) : v.name = h.name
              /\ (\E v \in Range(call.param[k].temporary_variables) : v.name = h.name)
                    => \E x \in Range(kernels[k].args) : x.name = h.name


\* the argument list _process_memory was called with
MemoryInputArgs ==
    SelectSeq(args, LAMBDA x : x.name \notin
                  {type_changes[i].name : i \in 1..Len(type_changes)})

\* every memory class fits once the first n candidates are promoted
FitsWithPrefix(n) ==
    all(can_fit(mem_types(MemoryInputArgs, local, constants), limits,
                SubSeq(promotion_candidates(constants), 1, n)))

\* C11: greedy promotion stops at the first point at which every memory class fits:
\* when _process_memory ends, the promoted arrays it returns are the shortest prefix
\* of the eligible candidates, in descending element count, whose promotion makes the
\* budget fit; nothing is promoted and the arguments are returned as they were given
\* when the budget fits at once.
C11_ShortestFittingPrefix ==
    pc = "mem_end" =>
        \A n \in 0..Len(promotion_candidates(constants)) :
            (FitsWithPrefix(n) /\ \A m \in 0..(n - 1) : ~FitsWithPrefix(m)) =>
                /\ outcome = "ok"
                /\ host_constants = SubSeq(promotion_candidates(constants), 1, n)
                /\ n = 0 => args = MemoryInputArgs /\ type_changes = <<>>

\* the selection of lines 1353-1364 alone: when the loop is left, the arrays marked
\* for promotion are the shortest fitting prefix of the candidates
SelectionIsShortestPrefix ==
    pc = "mem_end" /\ outcome = "TypeError" =>
        /\ type_changes = SubSeq(promotion_candidates(constants), 1, Len(type_changes))
        /\ FitsWithPrefix(Len(type_changes))
        /\ \A m \in 0..(Len(type_changes) - 1) : ~FitsWithPrefix(m)

----------------------------------------------------------------------------
(* kernel_generator._get_working_buffer                                     *)
(* A dimension of a shape is an integer or a symbol (a pymbolic variable):  *)
(* the record [is_int, value, name].                                        *)

MaxArrays == 3

\* the variables _get_working_buffer leaves alone
BufferOthers == <<ArgsMemVars, BarrierVars, SpecializeVars, GenerateVars, DriverVars, MergeVars>>

BufferOthersIdle == ArgsMemIdle /\ BarrierIdle /\ SpecializeIdle /\ GenerateIdle /\ DriverIdle /\ MergeIdle

Dim(n) == [is_int |-> TRUE, value |-> n, name |-> ""]

Sym(s) == [is_int |-> FALSE, value |-> 0, name |-> s]

\* pyjac.core.array_creator.work_size.name
w_size_name == "work_size"

\* kernel_generator.user_specified_work_size
user_specified_work_size(opt) == opt # "None"

\* kernel_generator.work_size, as str() prints it
work_size(opt) == IF user_specified_work_size(opt) THEN opt ELSE w_size_name

\* arg.dtype.is_integral()
is_integral(dtype) == dtype \in {"int32", "int64"}

\* line 1502: the integer dimensions of the shape
isizes(shape) == SelectSeq(shape, LAMBDA x : x.is_int)

\* line 1502: the other dimensions of the shape
ssizes(shape) == SelectSeq(shape, LAMBDA x : ~x.is_int)

RECURSIVE np_prod(_)
np_prod(dims) == IF dims = <<>> THEN 1 ELSE Head(dims).value * np_prod(Tail(dims))

\* the size of a whole shape, a symbol counted as two elements
item_size_of_shape(shape) == np_prod(isizes(shape)) * (2 * Len(ssizes(shape)) + 1)

\* line 1505: int(np.prod(isizes))
item_size(shape) == np_prod(isizes(shape))

\* line 1504: '{} * {}'.format(size_per_work_item, work_size)
format_offset(total, ws) == [count |-> total, times |-> ws]

\* offsets[name] = offset: a dict keeps the position of a key it already has
dict_set(items, key, value) ==
    IF \E i \in 1..Len(items) : items[i].key = key
    THEN [i \in 1..Len(items) |->
             IF items[i].key = key THEN [key |-> key, value |-> value] ELSE items[i]]
    ELSE Append(items, [key |-> key, value |-> value])

\* the first symbolic dimension alone names the work size
work_dimension_named(ss) == ss[1].name = w_size_name

\* line 1508, with a symbolic dimension to look at
work_dimension_ok(ss) == Len(ss) <= 1 /\ ss[1].name = w_size_name

\* the array the loop of line 1498 is at
current_arg == buffer_args[arg_index + 1]

\* lines 1500-1508 for an array that passes
PackArray ==
    /\ pc = "buf_loop"
    /\ arg_index < Len(buffer_args)
    /\ ~is_integral(current_arg.dtype)
    /\ \/ user_specified_work_size(loopy_work_size)
       \/ ssizes(current_arg.shape) # <<>> /\ work_dimension_ok(ssizes(current_arg.shape))
    /\ offsets' = dict_set(offsets, current_arg.name,
                           format_offset(size_per_work_item, work_size(loopy_work_size)))
    /\ size_per_work_item' = size_per_work_item + item_size(current_arg.shape)
    /\ arg_index' = arg_index + 1
    /\ UNCHANGED <<pc, outcome, buffer_args, loopy_work_size, BufferOthers>>

\* line 1500: the assertion on the element type fails
IntegralArray ==
    /\ pc = "buf_loop"
    /\ arg_index < Len(buffer_args)
    /\ is_integral(current_arg.dtype)
    /\ outcome' = "AssertionError"
    /\ pc' = "buf_end"
    /\ UNCHANGED <<BufferVars, BufferOthers>>

\* line 1508: the assertion on the work dimension fails
WrongWorkDimension ==
    /\ pc = "buf_loop"
    /\ arg_index < Len(buffer_args)
    /\ ~is_integral(current_arg.dtype)
    /\ ~user_specified_work_size(loopy_work_size)
    /\ ssizes(current_arg.shape) # <<>>
    /\ ~work_dimension_ok(ssizes(current_arg.shape))
    /\ offsets' = dict_set(offsets, current_arg.name,
                           format_offset(size_per_work_item, work_size(loopy_work_size)))
    /\ size_per_work_item' = size_per_work_item + item_size(current_arg.shape)
    /\ outcome' = "AssertionError"
    /\ pc' = "buf_end"
    /\ UNCHANGED <<buffer_args, loopy_work_size, arg_index, BufferOthers>>

\* line 1508: ssizes[0] of an empty list
NoWorkDimension ==
    /\ pc = "buf_loop"
    /\ arg_index < Len(buffer_args)
    /\ ~is_integral(current_arg.dtype)
    /\ ~user_specified_work_size(loopy_work_size)
    /\ ssizes(current_arg.shape) = <<>>
    /\ offsets' = dict_set(offsets, current_arg.name,
                           format_offset(size_per_work_item, work_size(loopy_work_size)))
    /\ size_per_work_item' = size_per_work_item + item_size(current_arg.shape)
    /\ outcome' = "IndexError"
    /\ pc' = "buf_end"
    /\ UNCHANGED <<buffer_args, loopy_work_size, arg_index, BufferOthers>>

\* line 1510: return size_per_work_item, offsets
ReturnBuffer ==
    /\ pc = "buf_loop"
    /\ arg_index = Len(buffer_args)
    /\ outcome' = "ok"
    /\ pc' = "buf_end"
    /\ UNCHANGED <<BufferVars, BufferOthers>>

\* the arrays given to the packer
fA == GlobalArg("fA", "float64", FALSE, <<Sym("work_size"), Dim(2), Dim(3)>>)
fB == GlobalArg("fB", "float64", FALSE, <<Sym("work_size"), Dim(4)>>)
fB2 == GlobalArg("fB", "float64", FALSE, <<Sym("work_size"), Dim(2)>>)
fC == GlobalArg("fC", "float64", FALSE, <<Sym("work_size")>>)
fD == GlobalArg("fD", "float64", FALSE, <<Dim(4), Sym("work_size")>>)
iE == GlobalArg("iE", "int32", FALSE, <<Sym("work_size"), Dim(4)>>)
fF == GlobalArg("fF", "float64", FALSE, <<Dim(4)>>)
fG == GlobalArg("fG", "float64", FALSE, <<Sym("work_size"), Sym("other"), Dim(2)>>)
fH == GlobalArg("fH", "float64", FALSE, <<Sym("other"), Dim(2)>>)

BufferArrays == {fA, fB, fB2, fC, fD, iE, fF, fG, fH}

\* _get_working_buffer(args) is called
InitBuffer ==
    /\ buffer_args \in {<<>>} \cup ListsOf(BufferArrays, MaxArrays)
    /\ loopy_work_size \in {"None", "2"}
    /\ size_per_work_item = 0
    /\ offsets = <<>>
    /\ arg_index = 0
    /\ pc = "buf_loop"
    /\ outcome = "none"
    /\ BufferOthersIdle

NextBuffer ==
    \/ PackArray
    \/ IntegralArray
    \/ WrongWorkDimension
    \/ NoWorkDimension
    \/ ReturnBuffer

SpecBuffer == InitBuffer /\ [][NextBuffer]_vars

----------------------------------------------------------------------------
(* Claims about _get_working_buffer *)

\* no two arrays of the list have the same name
DistinctNames ==
    \A i, j \in 1..Len(buffer_args) : buffer_args[i].name = buffer_args[j].name => i = j

RECURSIVE IntProduct(_)
IntProduct(shape) ==
    IF shape = <<>> THEN 1
    ELSE (IF Head(shape).is_int THEN Head(shape).value ELSE 1) * IntProduct(Tail(shape))

\* the product of the integer dimensions of the arrays before array i, added up
Packed(i) == SeqSum([j \in 1..(i - 1) |-> IntProduct(buffer_args[j].shape)])

\* the offset the dict has for a name
OffsetOf(n) == (CHOOSE it \in Range(offsets) : it.key = n).value

\* C12: for a list of arrays with distinct names the packer accepts, the offset of the
\* first array is 0 * work_size, the offset of array i+1 is the offset of array i plus
\* (product of the integer dimensions of array i) * work_size, and the returned
\* elements-per-item is the sum over all arrays of the product of their integer
\* dimensions: no overlap, no gap.
C12_TightlyPacked ==
    pc = "buf_end" /\ outcome = "ok" /\ DistinctNames =>
        /\ Len(offsets) = Len(buffer_args)
        /\ \A i \in 1..Len(buffer_args) :
              /\ \E it \in Range(offsets) : it.key = buffer_args[i].name
              /\ OffsetOf(buffer_args[i].name) =
                     [count |-> Packed(i), times |-> work_size(loopy_work_size)]
        /\ size_per_work_item = Packed(Len(buffer_args) + 1)

C12_Witness ==
    /\ pc = "buf_end" /\ outcome = "ok" /\ DistinctNames
    /\ Len(buffer_args) = 3
    /\ \E i \in 1..3 : Len(isizes(buffer_args[i].shape)) = 2
    /\ \E i \in 1..3 : isizes(buffer_args[i].shape) = <<>>
    /\ loopy_work_size = "None"
    /\ size_per_work_item = 11

\* the symbolic dimensions of an array are exactly one, the work-size symbol
OneWorkDimension(arg) ==
    Cardinality({d \in 1..Len(arg.shape) : ~arg.shape[d].is_int}) = 1
    /\ \A d \in 1..Len(arg.shape) :
          ~arg.shape[d].is_int => arg.shape[d].name = "work_size"

\* C13: the packer fails with a fatal error and returns nothing if an array has an
\* integral element type, or if, the work size not being pinned by the user, an array
\* does not have exactly one non-integer dimension equal to the work-size symbol (none
\* at all, two or more, or another symbol); with a pinned work size the dimensions are
\* not checked and only an integral element type fails.
C13_ShapeErrorIsFatal ==
    pc = "buf_end" =>
        LET integral == \E i \in 1..Len(buffer_args) : is_integral(buffer_args[i].dtype)
            misshaped == \E i \in 1..Len(buffer_args) : ~OneWorkDimension(buffer_args[i])
            pinned == loopy_work_size # "None"
        IN /\ (integral \/ (~pinned /\ misshaped)) =>
                 outcome \in {"AssertionError", "IndexError"}
           /\ (pinned /\ ~integral) => outcome = "ok"

C13_Witness ==
    /\ pc = "buf_end"
    /\ outcome = "IndexError"
    /\ arg_index = 2
    /\ loopy_work_size = "None"

----------------------------------------------------------------------------
(* apply_barriers: kernel_generator (lines 476-493) and                     *)
(* opencl_kernel_generator (lines 2649-2679).  An instruction is the text   *)
(* of the call of one kernel; the enumerated list holds records [id, text]. *)

MaxInstructions == 3

MaxBarriers == 2

\* the variables apply_barriers leaves alone
BarrierOthers == <<ArgsMemVars, BufferVars, SpecializeVars, GenerateVars, DriverVars, MergeVars>>

BarrierOthersIdle == ArgsMemIdle /\ BufferIdle /\ SpecializeIdle /\ GenerateIdle /\ DriverIdle /\ MergeIdle

\* the call of kernel number i, as _get_kernel_call writes it
KernelCallText(i) == [call |-> i, barrier |-> "none"]

\* self.barrier_templates[kind] + utils.line_end[self.lang]
BarrierText(kind) == [call |-> -1, barrier |-> kind]

\* lines 2381-2384: the keys of barrier_templates
barrier_templates == {"global", "local"}

\* line 2667: list(enumerate(instructions))
enumerate(texts) == [i \in 1..Len(texts) |-> [id |-> i - 1, text |-> texts[i]]]

\* insert x behind position index (1-based) of the list
insert_behind(s, index, x) ==
    SubSeq(s, 1, index) \o <<x>> \o SubSeq(s, index + 1, Len(s))

\* list.insert(index, x) for a position of the list (1-based here)
list_insert(s, index, x) ==
    SubSeq(s, 1, index - 1) \o <<x>> \o SubSeq(s, index, Len(s))

\* lines 2670-2671: next(ind for ind, inst in enumerate(instructions)
\* if inst[0] == barrier[1]), 1-based; 0 stands for StopIteration
insert_index(enumerated, after) ==
    IF \E i \in 1..Len(enumerated) : enumerated[i].id = after
    THEN CHOOSE i \in 1..Len(enumerated) :
            /\ enumerated[i].id = after
            /\ \A j \in 1..(i - 1) : enumerated[j].id # after
    ELSE 0

\* instructions[index - 1] of Python for the 1-based position index: position 0 of
\* Python gives instructions[-1], the last element
element_before(enumerated, index) ==
    IF index = 1 THEN enumerated[Len(enumerated)] ELSE enumerated[index - 1]

\* the barrier the loop of line 2668 is at
current_barrier == barriers[barrier_index + 1]

\* kernel_generator.apply_barriers: the list is returned as it is
BaseApplyBarriers ==
    /\ pc = "bar_start"
    /\ lang # "opencl"
    /\ pc' = "bar_end"
    /\ outcome' = "ok"
    /\ UNCHANGED <<BarrierVars, BarrierOthers>>

\* lines 2666-2667
EnumerateInstructions ==
    /\ pc = "bar_start"
    /\ lang = "opencl"
    /\ instructions' = enumerate(instructions)
    /\ pc' = "bar_loop"
    /\ UNCHANGED <<outcome, lang, barriers, instructions_in, barrier_index, BarrierOthers>>

\* lines 2670-2671: no instruction has the index barrier[1]
BarrierNotFound ==
    /\ pc = "bar_loop"
    /\ barrier_index < Len(barriers)
    /\ insert_index(instructions, current_barrier.after) = 0
    /\ outcome' = "StopIteration"
    /\ pc' = "bar_end"
    /\ UNCHANGED <<BarrierVars, BarrierOthers>>

\* line 2673: the assertion fails
BarrierMisplaced ==
    /\ pc = "bar_loop"
    /\ barrier_index < Len(barriers)
    /\ insert_index(instructions, current_barrier.after) # 0
    /\ current_barrier.before #
          element_before(instructions,
                         insert_index(instructions, current_barrier.after)).id
    /\ outcome' = "AssertionError"
    /\ pc' = "bar_end"
    /\ UNCHANGED <<BarrierVars, BarrierOthers>>

\* lines 2670-2676 for a barrier that passes the assertion
InsertBarrier ==
    /\ pc = "bar_loop"
    /\ barrier_index < Len(barriers)
    /\ insert_index(instructions, current_barrier.after) # 0
    /\ current_barrier.before =
          element_before(instructions,
                         insert_index(instructions, current_barrier.after)).id
    /\ current_barrier.kind \in barrier_templates
    /\ instructions' = list_insert(instructions,
                                   insert_index(instructions, current_barrier.after),
                                   [id |-> -1, text |-> BarrierText(current_barrier.kind)])
    /\ barrier_index' = barrier_index + 1
    /\ UNCHANGED <<pc, outcome, lang, barriers, instructions_in, BarrierOthers>>

\* lines 2677-2679
StripIndices ==
    /\ pc = "bar_loop"
    /\ barrier_index = Len(barriers)
    /\ instructions' = [i \in 1..Len(instructions) |-> instructions[i].text]
    /\ outcome' = "ok"
    /\ pc' = "bar_end"
    /\ UNCHANGED <<lang, barriers, instructions_in, barrier_index, BarrierOthers>>

\* apply_barriers(instructions) is called on the calls of kernels 0 .. n-1
InitBarriers ==
    /\ lang \in {"c", "opencl"}
    /\ \E n \in 0..MaxInstructions :
         /\ instructions_in = [i \in 1..n |-> KernelCallText(i - 1)]
         /\ barriers \in {<<>>} \cup
               ListsOf([before : 0..(MaxInstructions - 1), after : 0..MaxInstructions,
                        kind : barrier_templates], MaxBarriers)
    /\ instructions = instructions_in
    /\ barrier_index = 0
    /\ pc = "bar_start"
    /\ outcome = "none"
    /\ BarrierOthersIdle

NextBarriers ==
    \/ BaseApplyBarriers
    \/ EnumerateInstructions
    \/ BarrierNotFound
    \/ BarrierMisplaced
    \/ InsertBarrier
    \/ StripIndices

SpecBarriers == InitBarriers /\ [][NextBarriers]_vars

----------------------------------------------------------------------------
(* Claims about apply_barriers *)

\* the positions of the barrier statements in the returned list
BarrierPositions == {p \in 1..Len(instructions) : instructions[p].barrier # "none"}

\* C14: when the opencl apply_barriers accepts its list of triples, the returned list
\* holds every original instruction in its original relative order, exactly one
\* barrier statement per requested triple, and the barrier of each triple sits
\* immediately before the call of the after-kernel of that triple; the apply_barriers
\* of the base generator returns the instruction list unchanged.
C14_BarriersBeforeSuccessors ==
    pc = "bar_end" /\ outcome = "ok" =>
        IF lang = "opencl"
        THEN /\ SelectSeq(instructions, LAMBDA t : t.barrier = "none") = instructions_in
             /\ Cardinality(BarrierPositions) = Len(barriers)
             /\ \A j, k \in 1..Len(barriers) :
                   barriers[j].after = barriers[k].after => j = k
             /\ \A j \in 1..Len(barriers) :
                   \E p \in BarrierPositions :
                      /\ instructions[p] = BarrierText(barriers[j].kind)
                      /\ p < Len(instructions)
                      /\ instructions[p + 1] = KernelCallText(barriers[j].after)
        ELSE instructions = instructions_in

C14_Witness ==
    /\ pc = "bar_end" /\ outcome = "ok" /\ lang = "opencl"
    /\ Len(barriers) = 2
    /\ barriers[1].after > barriers[2].after
    /\ barriers[1].kind # barriers[2].kind
    /\ Len(instructions) = 5

\* the call of kernel 'after' has the call of kernel 'before' right in front of it
DirectlyPreceded(before, after) ==
    \E p \in 2..Len(instructions) :
        /\ instructions[p].id = after
        /\ instructions[p - 1].id = before
        /\ \A q \in 1..(p - 1) : instructions[q].id # after

\* C15: a triple (before, after, kind) is rejected with a fatal error whenever the
\* instruction immediately preceding the call of 'after' in the current list is not
\* the call of 'before': also when the call of 'after' is the first instruction of
\* the list and when an earlier triple has put a barrier in front of it.
C15_MisplacedBarrierRejected ==
    [][ (/\ pc = "bar_loop"
         /\ barrier_index < Len(barriers)
         /\ ~DirectlyPreceded(current_barrier.before, current_barrier.after))
        => outcome' \in {"AssertionError", "StopIteration"} ]_vars

----------------------------------------------------------------------------
(* kernel_generator.apply_specialization, lines 2123-2227.                  *)
(* A loopy kernel is here the record [inames, fixed_up, ggs]: the list of   *)
(* its loops [name, tag] (tag "None": not tagged), whether the fix-up       *)
(* function of the descriptor has run on it, and the vector width of the    *)
(* overridden grid sizes (0: not overridden).  An option that is None in    *)
(* Python is 0 here.                                                        *)

\* the variables apply_specialization leaves alone
SpecializeOthers == <<ArgsMemVars, BufferVars, BarrierVars, GenerateVars, DriverVars, MergeVars>>

SpecializeOthersIdle == ArgsMemIdle /\ BufferIdle /\ BarrierIdle /\ GenerateIdle /\ DriverIdle /\ MergeIdle

VectorWidth == 2

UnrollFactor == 2

\* pyjac.core.array_creator.global_ind
global_ind == "j"

\* utils.can_vectorize_lang
can_vectorize_lang(l) == l = "opencl"

\* kernel_generator.vec_width
vec_width(opts) ==
    IF opts.depth # 0 THEN opts.depth ELSE IF opts.width # 0 THEN opts.width ELSE 0

\* kernel_generator.get_inames: the default loops of a sub-kernel
get_inames(opts, testing) ==
    IF ~testing /\ vec_width(opts) # 0 /\ opts.width # 0
    THEN <<global_ind \o "_outer", global_ind \o "_inner">>
    ELSE <<global_ind>>

\* make_kernel, lines 2019-2026: inames = [info.var_name] + our_inames, not yet tagged
make_kernel(descriptor, opts, testing) ==
    LET names == <<descriptor.var_name>> \o get_inames(opts, testing)
    IN [inames |-> [i \in 1..Len(names) |-> [name |-> names[i], tag |-> "None"]],
        fixed_up |-> FALSE, ggs |-> 0]

has_iname(knl, iname) == \E i \in 1..Len(knl.inames) : knl.inames[i].name = iname

\* lp.tag_inames(knl, [(iname, tag)])
tag_inames(knl, iname, tag) ==
    IF has_iname(knl, iname)
    THEN [outcome |-> "ok",
          knl |-> [knl EXCEPT !.inames =
                      [i \in 1..Len(@) |-> IF @[i].name = iname
                                           THEN [name |-> iname, tag |-> tag] ELSE @[i]]]]
    ELSE [outcome |-> "LoopyError", knl |-> knl]

\* lp.split_iname(knl, iname, length, inner_tag=tag)
split_iname(knl, iname, tag) ==
    IF has_iname(knl, iname)
    THEN LET at == CHOOSE i \in 1..Len(knl.inames) : knl.inames[i].name = iname
         IN [outcome |-> "ok",
             knl |-> [knl EXCEPT !.inames =
                         SubSeq(@, 1, at - 1)
                         \o <<[name |-> iname \o "_outer", tag |-> "None"],
                              [name |-> iname \o "_inner", tag |-> tag]>>
                         \o SubSeq(@, at + 1, Len(@))]]
    ELSE [outcome |-> "LoopyError", knl |-> knl]

\* lines 2165-2178
to_split(opts, inner_ind) ==
    IF opts.depth # 0 THEN inner_ind ELSE IF opts.width # 0 THEN global_ind ELSE "None"

i_tag(opts, inner_ind) == IF opts.depth # 0 THEN inner_ind \o "_outer" ELSE inner_ind

j_tag(opts) ==
    IF opts.depth = 0 /\ opts.width # 0 THEN global_ind \o "_outer" ELSE global_ind

\* the state of a call after a loopy transformation: an error ends the call
after_loopy(st, r) == [st EXCEPT !.outcome = r.outcome, !.knl = r.knl]

\* lines 2187-2196: the vector split
vector_split(st, dry, opts, inner_ind, testing, can_vectorize) ==
    LET tag == IF opts.is_simd THEN "vec" ELSE "l.0"
        ts == to_split(opts, inner_ind)
    IN IF st.outcome # "ok" \/ ts = "None" \/ ~can_vectorize THEN st
       ELSE IF dry THEN [st EXCEPT !.specialization = dict_set(@, ts \o "_inner", tag)]
       ELSE IF opts.width # 0 /\ ~testing
            THEN after_loopy(st, tag_inames(st.knl, ts \o "_inner", tag))
            ELSE after_loopy(st, split_iname(st.knl, ts, tag))

\* lines 2199-2204: the global loop
global_tag(st, dry, opts) ==
    IF st.outcome # "ok" \/ ~can_vectorize_lang(opts.lang) THEN st
    ELSE IF dry THEN [st EXCEPT !.specialization = dict_set(@, j_tag(opts), "g.0")]
    ELSE after_loopy(st, tag_inames(st.knl, j_tag(opts), "g.0"))

\* a fix-up function that is never run
fixup_skipped(knl, opts, inner_ind) == [outcome |-> "ok", knl |-> knl]

\* the fix-up function of the descriptors of the model: it vectorizes the kernel in
\* its own way (tag "fixup" on the inner part of the loop to split) and leaves its mark
fixup(knl, opts, inner_ind) ==
    LET ts == to_split(opts, inner_ind)
        r == IF ts = "None" THEN [outcome |-> "ok", knl |-> knl]
             ELSE IF has_iname(knl, ts \o "_inner")
                  THEN tag_inames(knl, ts \o "_inner", "fixup")
                  ELSE split_iname(knl, ts, "fixup")
    IN [r EXCEPT !.knl.fixed_up = TRUE]

\* lines 2207-2208: knl = vecspec(knl)
run_vecspec(st, dry, vecspec, opts, inner_ind) ==
    IF st.outcome # "ok" \/ vecspec = "None" \/ dry THEN st
    ELSE after_loopy(st, fixup(st.knl, opts, inner_ind))

\* lines 2210-2213: vecwith_fixer
fix_grid_sizes(st, dry, opts) ==
    IF st.outcome # "ok" \/ vec_width(opts) = 0 \/ opts.is_simd \/ dry THEN st
    ELSE [st EXCEPT !.knl.ggs = vec_width(opts)]

\* lines 2216-2225: unrolling or ILP of the inner loop
unroll_or_ilp(st, dry, opts, inner_ind) ==
    IF st.outcome # "ok" THEN st
    ELSE IF opts.unr # 0
         THEN (IF dry
               THEN [st EXCEPT !.specialization =
                        dict_set(@, i_tag(opts, inner_ind) \o "_inner", "unr")]
               ELSE after_loopy(st, split_iname(st.knl, i_tag(opts, inner_ind), "unr")))
    ELSE IF opts.ilp
         THEN (IF dry
               THEN [st EXCEPT !.specialization =
                        dict_set(@, i_tag(opts, inner_ind), "ilp")]
               ELSE after_loopy(st, tag_inames(st.knl, i_tag(opts, inner_ind), "ilp")))
    ELSE st

\* apply_specialization(loopy_opts, inner_ind, knl, for_testing, vecspec,
\* can_vectorize, get_specialization): the kernel or, in the dry run, the mapping
apply_specialization(opts, inner_ind, knl, testing, vecspec, can_vectorize, get_specialization) ==
    LET start == [outcome |-> IF ~can_vectorize /\ vecspec = "None"
                              THEN "AssertionError" ELSE "ok",
                  knl |-> knl, specialization |-> <<>>]
        s1 == vector_split(start, get_specialization, opts, inner_ind, testing,
                           can_vectorize)
        s2 == global_tag(s1, get_specialization, opts)
        s3 == run_vecspec(s2, get_specialization, vecspec, opts, inner_ind)
        s4 == fix_grid_sizes(s3, get_specialization, opts)
    IN unroll_or_ilp(s4, get_specialization, opts, inner_ind)

\* the options of a run: every combination, depth and width both set included
SpecializeOptions ==
    [depth : {0, VectorWidth}, width : {0, VectorWidth}, unr : {0, UnrollFactor},
     ilp : BOOLEAN, is_simd : BOOLEAN, lang : {"c", "opencl"}]

Descriptors ==
    [var_name : {"i"}, can_vectorize : BOOLEAN,
     vectorization_specializer : {"None", "fixup"}]

\* apply_specialization(..., get_specialization=True) on the kernel of the descriptor
GetSpecialization ==
    /\ pc = "specialize"
    /\ specialization = NotCalled
    /\ specialization' =
          apply_specialization(loopy_opts, info.var_name,
                               make_kernel(info, loopy_opts, for_testing), for_testing,
                               info.vectorization_specializer, info.can_vectorize, TRUE)
    /\ UNCHANGED <<pc, outcome, loopy_opts, info, for_testing, specialized,
                   SpecializeOthers>>

\* apply_specialization(..., get_specialization=False), as _make_kernels calls it
ApplySpecialization ==
    /\ pc = "specialize"
    /\ specialized = NotCalled
    /\ specialized' =
          apply_specialization(loopy_opts, info.var_name,
                               make_kernel(info, loopy_opts, for_testing), for_testing,
                               info.vectorization_specializer, info.can_vectorize, FALSE)
    /\ UNCHANGED <<pc, outcome, loopy_opts, info, for_testing, specialization,
                   SpecializeOthers>>

InitSpecialize ==
    /\ loopy_opts \in SpecializeOptions
    /\ info \in Descriptors
    /\ for_testing \in BOOLEAN
    /\ specialization = NotCalled
    /\ specialized = NotCalled
    /\ pc = "specialize"
    /\ outcome = "none"
    /\ SpecializeOthersIdle

NextSpecialize == GetSpecialization \/ ApplySpecialization

SpecSpecialize == InitSpecialize /\ [][NextSpecialize]_vars

----------------------------------------------------------------------------
(* Claims about apply_specialization *)

\* the (loop, tag) pairs of a mapping
PairsOfMapping(items) == {<<items[i].key, items[i].value>> : i \in 1..Len(items)}

\* the (loop, tag) pairs of the tagged loops of a kernel
PairsOfKernel(knl) ==
    {<<knl.inames[i].name, knl.inames[i].tag>> :
        i \in {j \in 1..Len(knl.inames) : knl.inames[j].tag # "None"}}

\* C16: for every combination of the options and a vectorizable kernel without
\* fix-up function, the (loop, tag) pairs of the mapping returned with
\* get_specialization=True are exactly the loop tags that the call with
\* get_specialization=False applies to the kernel.
C16_DryRunMatchesApplied ==
    (/\ specialization.outcome # "none"
     /\ specialized.outcome # "none"
     /\ info.can_vectorize
     /\ info.vectorization_specializer = "None") =>
        /\ specialization.outcome = "ok"
        /\ specialized.outcome = "ok"
        /\ PairsOfMapping(specialization.specialization) = PairsOfKernel(specialized.knl)

\* with a deep or a wide vectorization, not both, the dry run and the applied call
\* agree on every kernel as above
DryRunMatchesAppliedOneVectorization ==
    (/\ specialization.outcome # "none"
     /\ specialized.outcome # "none"
     /\ info.can_vectorize
     /\ info.vectorization_specializer = "None"
     /\ (loopy_opts.depth = 0 \/ loopy_opts.width = 0)) =>
        /\ specialization.outcome = "ok"
        /\ specialized.outcome = "ok"
        /\ PairsOfMapping(specialization.specialization) = PairsOfKernel(specialized.knl)

\* depth and width both set, production mode: the dry run returns a mapping, the
\* applied call ends in loopy's error for a loop the kernel does not have
DryRunWithoutAppliedCall ==
    /\ specialization.outcome = "ok"
    /\ specialized.outcome = "LoopyError"
    /\ info.can_vectorize
    /\ info.vectorization_specializer = "None"
    /\ loopy_opts.depth # 0
    /\ loopy_opts.width # 0
    /\ ~for_testing

----------------------------------------------------------------------------
(* kernel_generator.generate, lines 669-708, with _make_kernels (581-638),  *)
(* _generate_wrapping_kernel (1767-1813) and _generate_driver_kernel        *)
(* (1905-1941).  An entry of a kernel list is a descriptor (knl_info, kind  *)
(* "info") or a built kernel (lp.LoopKernel, kind "kernel").  The merging   *)
(* itself is reduced to the list it resolves, the kernels it compiles and   *)
(* the files it writes.                                                     *)

\* the variables generate() leaves alone
GenerateOthers == <<ArgsMemVars, BufferVars, BarrierVars, info, specialization, specialized, DriverVars, MergeVars>>

GenerateOthersIdle == ResolutionIdle /\ BufferIdle /\ BarrierIdle /\ info = NoInfo /\ specialization = NotCalled /\ specialized = NotCalled /\ DriverIdle /\ MergeIdle

\* a knl_info
knl_info(knl_name, can_vectorize, vecspec) ==
    [name |-> knl_name, kind |-> "info", var_name |-> "i", can_vectorize |-> can_vectorize,
     vectorization_specializer |-> vecspec, knl |-> NoKernel, builds |-> 0]

\* no entry is taken for a built kernel
never_a_LoopKernel(entry) == FALSE

\* isinstance(info, lp.LoopKernel)
is_LoopKernel(entry) == entry.kind = "kernel"

\* a call of _make_kernels: of generator gen, on its own list (kernels=[]) or on the
\* list of driver descriptors; i kernels and d dependencies are done
frame(gen, use_ours, return_to) ==
    [gen |-> gen, use_ours |-> use_ours, i |-> 0, d |-> 0, return_to |-> return_to]

\* the list 'kernels' of the innermost call of _make_kernels
making == IF Head(make_stack).use_ours THEN gen_kernels[Head(make_stack).gen]
          ELSE driver_kernels

\* lines 606-614: make_kernel, then apply_specialization
built(entry) ==
    apply_specialization(loopy_opts, entry.var_name,
                         make_kernel(entry, loopy_opts, for_testing), for_testing,
                         entry.vectorization_specializer, entry.can_vectorize, FALSE)

\* kernels[i] = ... in the list of the innermost call
store_kernel(entry) ==
    LET f == Head(make_stack)
    IN /\ gen_kernels' = IF f.use_ours
                         THEN [gen_kernels EXCEPT ![f.gen][f.i + 1] = entry]
                         ELSE gen_kernels
       /\ driver_kernels' = IF f.use_ours THEN driver_kernels
                            ELSE [driver_kernels EXCEPT ![f.i + 1] = entry]

\* the dependencies are never built
never_use_ours(f) == FALSE

\* lines 595-598 and 634-635: x._make_kernels() is called when use_ours
builds_dependencies(f) == f.use_ours

\* generate() starts a phase
log(phase) == phases' = Append(phases, phase)

\* the calls of generate() so far
RECURSIVE count_of(_, _)
count_of(x, s) ==
    IF s = <<>> THEN 0 ELSE (IF Head(s) = x THEN 1 ELSE 0) + count_of(x, Tail(s))

MaxGenerateCalls == 2

\* generate() is called again on the generator, after it returned or raised
GenerateAgain ==
    /\ pc = "gen_end"
    /\ count_of("generate", phases) < MaxGenerateCalls
    /\ pc' = "gen_start"
    /\ outcome' = "none"
    /\ make_stack' = <<>>
    /\ UNCHANGED <<loopy_opts, for_testing, gen_kernels, gen_depends_on, generate_all,
                   driver_kernels, created, compiled, resolution_kernels, phases,
                   GenerateOthers>>

\* line 693: utils.create_dir(path)
CreateDir ==
    /\ pc = "gen_start"
    /\ log("generate")
    /\ created' = created \cup {"path/"}
    /\ pc' = "gen_make"
    /\ UNCHANGED <<outcome, loopy_opts, for_testing, gen_kernels, gen_depends_on,
                   generate_all, make_stack, driver_kernels, compiled,
                   resolution_kernels, GenerateOthers>>

\* line 694: self._make_kernels()
CallMakeKernels ==
    /\ pc = "gen_make"
    /\ log("build_kernels")
    /\ make_stack' = <<frame(1, TRUE, "wrapping")>>
    /\ pc' = "make_kernels"
    /\ UNCHANGED <<outcome, loopy_opts, for_testing, gen_kernels, gen_depends_on,
                   generate_all, driver_kernels, created, compiled, resolution_kernels,
                   GenerateOthers>>

\* lines 602-604: an entry that is a kernel already
SkipBuilt ==
    /\ pc = "make_kernels"
    /\ UNCHANGED phases
    /\ Head(make_stack).i < Len(making)
    /\ is_LoopKernel(making[Head(make_stack).i + 1])
    /\ make_stack' = <<[Head(make_stack) EXCEPT !.i = @ + 1]>> \o Tail(make_stack)
    /\ UNCHANGED <<pc, outcome, loopy_opts, for_testing, gen_kernels, gen_depends_on,
                   generate_all, driver_kernels, created, compiled, resolution_kernels,
                   GenerateOthers>>

\* lines 605-631: a descriptor becomes a kernel
BuildKernel ==
    /\ pc = "make_kernels"
    /\ UNCHANGED phases
    /\ Head(make_stack).i < Len(making)
    /\ ~is_LoopKernel(making[Head(make_stack).i + 1])
    /\ \E r \in {built(making[Head(make_stack).i + 1])} :
          /\ r.outcome = "ok"
          /\ store_kernel([making[Head(make_stack).i + 1] EXCEPT
                              !.kind = "kernel", !.knl = r.knl, !.builds = @ + 1])
    /\ make_stack' = <<[Head(make_stack) EXCEPT !.i = @ + 1]>> \o Tail(make_stack)
    /\ UNCHANGED <<pc, outcome, loopy_opts, for_testing, gen_depends_on, generate_all,
                   created, compiled, resolution_kernels, GenerateOthers>>

\* lines 605-614: apply_specialization raises; line 606 has stored the kernel of
\* make_kernel in the list already, and it stays there
BuildFails ==
    /\ pc = "make_kernels"
    /\ UNCHANGED phases
    /\ Head(make_stack).i < Len(making)
    /\ ~is_LoopKernel(making[Head(make_stack).i + 1])
    /\ \E r \in {built(making[Head(make_stack).i + 1])} :
          /\ r.outcome # "ok"
          /\ outcome' = r.outcome
    /\ store_kernel([making[Head(make_stack).i + 1] EXCEPT
                        !.kind = "kernel",
                        !.knl = make_kernel(making[Head(make_stack).i + 1], loopy_opts,
                                            for_testing),
                        !.builds = @ + 1])
    /\ pc' = "gen_end"
    /\ UNCHANGED <<loopy_opts, for_testing, gen_depends_on, generate_all,
                   make_stack, created, compiled, resolution_kernels,
                   GenerateOthers>>

\* the generator whose _make_kernels the innermost call is about to call
next_dependency == gen_depends_on[Head(make_stack).gen][Head(make_stack).d + 1]

\* _make_kernels of generator g has not returned yet
on_stack(g) == \E f \in 1..Len(make_stack) : make_stack[f].use_ours /\ make_stack[f].gen = g

\* lines 634-636: x._make_kernels() for the next dependency
CallDependency ==
    /\ pc = "make_kernels"
    /\ UNCHANGED phases
    /\ Head(make_stack).i = Len(making)
    /\ builds_dependencies(Head(make_stack))
    /\ Head(make_stack).d < Len(gen_depends_on[Head(make_stack).gen])
    /\ ~on_stack(next_dependency)
    /\ make_stack' =
          <<frame(gen_depends_on[Head(make_stack).gen][Head(make_stack).d + 1], TRUE,
                  "make_kernels"),
            [Head(make_stack) EXCEPT !.d = @ + 1]>> \o Tail(make_stack)
    /\ UNCHANGED <<pc, outcome, loopy_opts, for_testing, gen_kernels, gen_depends_on,
                   generate_all, driver_kernels, created, compiled, resolution_kernels,
                   GenerateOthers>>

\* lines 634-636 on a cycle of depends_on: the dependency is a generator whose
\* _make_kernels is running.  Its kernels are built and the dependencies before the
\* one that led here have returned, so the call builds nothing and comes to this
\* call again, until the interpreter ends the nesting with RecursionError
CallDependencyRecurses ==
    /\ pc = "make_kernels"
    /\ UNCHANGED phases
    /\ Head(make_stack).i = Len(making)
    /\ builds_dependencies(Head(make_stack))
    /\ Head(make_stack).d < Len(gen_depends_on[Head(make_stack).gen])
    /\ on_stack(next_dependency)
    /\ outcome' = "RecursionError"
    /\ pc' = "gen_end"
    /\ UNCHANGED <<loopy_opts, for_testing, gen_kernels, gen_depends_on, generate_all,
                   make_stack, driver_kernels, created, compiled, resolution_kernels,
                   GenerateOthers>>

\* line 638: return kernels
ReturnMakeKernels ==
    /\ pc = "make_kernels"
    /\ UNCHANGED phases
    /\ Head(make_stack).i = Len(making)
    /\ \/ ~builds_dependencies(Head(make_stack))
       \/ Head(make_stack).d = Len(gen_depends_on[Head(make_stack).gen])
    /\ make_stack' = Tail(make_stack)
    /\ pc' = Head(make_stack).return_to
    /\ UNCHANGED <<outcome, loopy_opts, for_testing, gen_kernels, gen_depends_on,
                   generate_all, driver_kernels, created, compiled, resolution_kernels,
                   GenerateOthers>>

\* the kernels of the direct dependencies, line 1182
dependency_kernels == Flatten([d \in 1..Len(gen_depends_on[1]) |->
                                   gen_kernels[gen_depends_on[1][d]]])

\* the list 'kernels' of _merge_kernels: self.kernels for the wrapper, the driver's
\* kernels for the driver
merged(for_driver) == IF for_driver THEN driver_kernels ELSE gen_kernels[1]

\* lines 1792-1798: the checks of _generate_wrapping_kernel
wrapping_check ==
    IF \E i \in 1..Len(gen_kernels[1]) : ~is_LoopKernel(gen_kernels[1][i])
    THEN "AssertionError"
    ELSE IF gen_depends_on[1] # <<>> /\ generate_all THEN "NotImplementedError"
    ELSE "ok"

\* lines 1792-1798: _generate_wrapping_kernel refuses
WrappingRefused ==
    /\ pc = "wrapping"
    /\ log("wrapping_kernel")
    /\ wrapping_check # "ok"
    /\ outcome' = wrapping_check
    /\ pc' = "gen_end"
    /\ UNCHANGED <<loopy_opts, for_testing, gen_kernels, gen_depends_on, generate_all,
                   make_stack, driver_kernels, created, compiled, resolution_kernels,
                   GenerateOthers>>

\* line 1591 with lines 1176-1182: _process_args takes the list of _merge_kernels and
\* appends the kernels of the dependencies to it in place (to a copy when it is empty)
StartResolution(for_driver) ==
    /\ resolution_kernels' = merged(for_driver) \o dependency_kernels
    /\ gen_kernels' = IF for_driver \/ gen_kernels[1] = <<>> THEN gen_kernels
                      ELSE [gen_kernels EXCEPT ![1] = @ \o dependency_kernels]
    /\ driver_kernels' = IF for_driver THEN driver_kernels \o dependency_kernels
                         ELSE driver_kernels
    /\ UNCHANGED <<outcome, loopy_opts, for_testing, gen_depends_on, generate_all,
                   make_stack, created, compiled, GenerateOthers>>

\* lines 1664-1665: lp.generate_code_v2 for every kernel of the list
CompileKernels(for_driver) ==
    /\ compiled' = compiled \o [i \in 1..Len(merged(for_driver)) |->
                                    merged(for_driver)[i].name]
    /\ UNCHANGED <<outcome, loopy_opts, for_testing, gen_kernels, gen_depends_on,
                   generate_all, make_stack, driver_kernels, created,
                   resolution_kernels, GenerateOthers>>

\* utils.file_ext and utils.header_ext for the languages of the model
file_ext(l) == IF l = "opencl" THEN ".ocl" ELSE ".c"

header_ext(l) == IF l = "opencl" THEN ".oclh" ELSE ".h"

\* lines 1815-1903: the source file and the header of the wrapper or of the driver
ToFile(for_driver) ==
    /\ created' = created \cup
          (IF for_driver
           THEN {"path/kernel_driver" \o file_ext(loopy_opts.lang),
                 "path/kernel_driver" \o header_ext(loopy_opts.lang)}
           ELSE {"path/kernel" \o file_ext(loopy_opts.lang),
                 "path/kernel" \o header_ext(loopy_opts.lang)})
    /\ UNCHANGED <<outcome, loopy_opts, for_testing, gen_kernels, gen_depends_on,
                   generate_all, make_stack, driver_kernels, compiled,
                   resolution_kernels, GenerateOthers>>

WrapperProcessArgs ==
    /\ pc = "wrapping"
    /\ log("wrapping_kernel")
    /\ wrapping_check = "ok"
    /\ StartResolution(FALSE)
    /\ pc' = "wrapper_compile"

WrapperCompile ==
    /\ pc = "wrapper_compile"
    /\ UNCHANGED phases
    /\ CompileKernels(FALSE)
    /\ pc' = "wrapper_to_file"

\* line 1735 with line 1418: _dummy_wrapper_kernel reads self.name, which does not
\* return for the kernel type dummy
WrapperNameFails ==
    /\ pc = "wrapper_to_file"
    /\ UNCHANGED phases
    /\ name(kernel_type) = "RecursionError"
    /\ outcome' = "RecursionError"
    /\ pc' = "gen_end"
    /\ UNCHANGED <<loopy_opts, for_testing, gen_kernels, gen_depends_on, generate_all,
                   make_stack, driver_kernels, created, compiled, resolution_kernels,
                   GenerateOthers>>

WrapperToFile ==
    /\ pc = "wrapper_to_file"
    /\ UNCHANGED phases
    /\ name(kernel_type) # "RecursionError"
    /\ ToFile(FALSE)
    /\ pc' = "compiling_program"

\* a step of generate() that writes files and nothing else
WriteFiles(files, result) ==
    /\ created' = created \cup files
    /\ outcome' = result
    /\ UNCHANGED <<loopy_opts, for_testing, gen_kernels, gen_depends_on,
                   generate_all, make_stack, driver_kernels, compiled,
                   resolution_kernels, GenerateOthers>>

\* a step of generate() that raises: generate() ends with the exception
Raises(files, exception) ==
    /\ WriteFiles(files, exception)
    /\ pc' = "gen_end"

\* line 699 for the opencl generator with a dependency: line 2600 reads x.filename of
\* the dependency, an attribute no generator has
CompilingProgramFails ==
    /\ pc = "compiling_program"
    /\ log("compiling_program")
    /\ loopy_opts.lang = "opencl"
    /\ gen_depends_on[1] # <<>>
    /\ Raises({}, "AttributeError")

\* line 699: the opencl generator writes the compiling program (lines 2605-2647), the
\* c generator has none (lines 984-1001)
GenerateCompilingProgram ==
    /\ pc = "compiling_program"
    /\ log("compiling_program")
    /\ loopy_opts.lang = "opencl" => gen_depends_on[1] = <<>>
    /\ WriteFiles(IF loopy_opts.lang = "opencl"
                  THEN {"path/kernel_compiler" \o file_ext(loopy_opts.lang)} ELSE {},
                  outcome)
    /\ pc' = "driver"

\* the descriptors of drivers.get_driver: copy in, the driver, copy out
driver_info == <<knl_info("copy_in", TRUE, "None"), knl_info("driver", TRUE, "None"),
                 knl_info("copy_out", TRUE, "None")>>

\* lines 1924-1933: the driver's descriptors go to _make_kernels
DriverMakeKernels ==
    /\ pc = "driver"
    /\ log("driver_kernel")
    /\ driver_kernels' = driver_info
    /\ make_stack' = <<frame(1, FALSE, "driver_merging")>>
    /\ pc' = "make_kernels"
    /\ UNCHANGED <<outcome, loopy_opts, for_testing, gen_kernels, gen_depends_on,
                   generate_all, created, compiled, resolution_kernels, GenerateOthers>>

DriverProcessArgs ==
    /\ pc = "driver_merging"
    /\ UNCHANGED phases
    /\ StartResolution(TRUE)
    /\ pc' = "driver_compile"

DriverCompile ==
    /\ pc = "driver_compile"
    /\ UNCHANGED phases
    /\ CompileKernels(TRUE)
    /\ pc' = "driver_to_file"

DriverToFile ==
    /\ pc = "driver_to_file"
    /\ UNCHANGED phases
    /\ ToFile(TRUE)
    /\ pc' = "calling_program"

\* lines 701-702: _generate_calling_program never returns.  The opencl generator
\* raises in _special_kernel_subs (line 937): get_kernel_arg_setting reads
\* self.kernel_data (line 2528), an attribute no generator has.  The c generator opens
\* the file (line 958) and raises at line 977, where the name max_per_run is not
\* defined.  Lines 703-708 of generate() are never reached.
GenerateCallingProgram ==
    /\ pc = "calling_program"
    /\ log("calling_program")
    /\ IF loopy_opts.lang = "opencl" THEN Raises({}, "AttributeError")
       ELSE Raises({"path/kernel_main" \o file_ext(loopy_opts.lang)}, "NameError")

----------------------------------------------------------------------------
(* The inputs of generate() *)

MaxGenerators == 3

\* loop options of a generation: none, a deep or a wide vectorization, for the c
\* generator and for the opencl generator
GenerateOptions ==
    {o \in SpecializeOptions :
        o.unr = 0 /\ ~o.ilp /\ ~o.is_simd}

\* the descriptors: vectorizable, not vectorizable with a fix-up function, and not
\* vectorizable without one
GenerateInfos ==
    {knl_info("plain", TRUE, "None"), knl_info("fixed", FALSE, "fixup"),
     knl_info("unvectorizable", FALSE, "None")}

RECURSIVE Ascending(_)
Ascending(S) ==
    IF S = {} THEN <<>>
    ELSE LET m == CHOOSE x \in S : \A y \in S : x <= y
         IN <<m>> \o Ascending(S \ {m})

\* depends_on of every generator; a generator depends on later ones only, so that
\* the dependencies form no cycle
DependencyGraphs ==
    {g \in [1..MaxGenerators -> {Ascending(S) : S \in SUBSET (2..MaxGenerators)}] :
        \A n \in 1..MaxGenerators : \A i \in 1..Len(g[n]) : g[n][i] > n}

\* the number of generators one call of add_depencencies adds
MaxAddedGenerators == 1

\* add_depencencies(k_gens), lines 566-579, on generator g outside of generate():
\* self.depends_on.extend(k_gens).  It is followed on the lists the constructors build.
AddDependencies ==
    /\ pc = "gen_start"
    /\ gen_depends_on \in DependencyGraphs
    /\ \E g \in 1..MaxGenerators : \E k_gens \in ListsOf(1..MaxGenerators, MaxAddedGenerators) :
          gen_depends_on' = [gen_depends_on EXCEPT ![g] = @ \o k_gens]
    /\ UNCHANGED <<pc, outcome, loopy_opts, for_testing, gen_kernels, generate_all,
                   make_stack, driver_kernels, created, compiled, resolution_kernels,
                   phases, GenerateOthers>>

InitGenerate ==
    /\ loopy_opts \in GenerateOptions
    /\ for_testing \in (IF loopy_opts.width # 0 THEN BOOLEAN ELSE {FALSE})
    /\ generate_all \in BOOLEAN
    /\ gen_depends_on \in DependencyGraphs
    /\ gen_kernels \in {k \in [1..MaxGenerators -> ListsOf(GenerateInfos, MaxKernels)] :
                          /\ \A n \in 2..MaxGenerators :
                                Len(k[n]) = 1 /\ k[n][1].vectorization_specializer = "None"
                          /\ \A m, n \in 2..MaxGenerators :
                                ~k[m][1].can_vectorize /\ ~k[n][1].can_vectorize => m = n}
    /\ make_stack = <<>>
    /\ driver_kernels = <<>>
    /\ created = {}
    /\ compiled = <<>>
    /\ resolution_kernels = <<>>
    /\ phases = <<>>
    /\ kernel_type \in {"dummy", "species_rates"}
    /\ pc = "gen_start"
    /\ outcome = "none"
    /\ GenerateOthersIdle

NextGenerate ==
    \/ AddDependencies \/ CreateDir \/ CallMakeKernels
    \/ SkipBuilt \/ BuildKernel \/ BuildFails
    \/ CallDependency \/ CallDependencyRecurses \/ ReturnMakeKernels
    \/ WrappingRefused
    \/ WrapperProcessArgs \/ WrapperCompile \/ WrapperToFile
    \/ CompilingProgramFails \/ GenerateCompilingProgram
    \/ DriverMakeKernels \/ DriverProcessArgs \/ DriverCompile \/ DriverToFile
    \/ GenerateCallingProgram
    \/ WrapperNameFails \/ GenerateAgain

SpecGenerate == InitGenerate /\ [][NextGenerate]_vars

----------------------------------------------------------------------------
(* Claims about generate() *)

\* the direct dependencies of the generators gs
depended_on(gs) ==
    UNION {{gen_depends_on[g][i] : i \in 1..Len(gen_depends_on[g])} : g \in gs}

\* the generators reached from gs in at most n steps along depends_on
RECURSIVE reached_from(_, _)
reached_from(gs, n) ==
    IF n = 0 THEN gs ELSE reached_from(gs \cup depended_on(gs), n - 1)

\* the generator of generate() and its transitive dependencies
generated == reached_from({1}, MaxGenerators)

\* no generator depends on itself, directly or through others
acyclic ==
    \A g \in 1..MaxGenerators : g \notin reached_from(depended_on({g}), MaxGenerators)

\* a descriptor that cannot be vectorized and has no fix-up function
unvectorizable(entry) ==
    ~is_LoopKernel(entry) /\ ~entry.can_vectorize /\ entry.vectorization_specializer = "None"

\* a descriptor that cannot be vectorized and has a fix-up function
needs_fixup(entry) ==
    ~is_LoopKernel(entry) /\ ~entry.can_vectorize /\ entry.vectorization_specializer # "None"

\* kernels[i] of the call of _make_kernels with frame f, on the lists given
entry_of(lists, driver, f) ==
    IF f.use_ours THEN lists[f.gen][f.i + 1] ELSE driver[f.i + 1]

\* the entry that the innermost call of _make_kernels handles next
next_entry == entry_of(gen_kernels, driver_kernels, Head(make_stack))

\* the innermost call of _make_kernels is about to build a descriptor (lines 605-614)
building ==
    /\ pc = "make_kernels"
    /\ Head(make_stack).i < Len(making)
    /\ ~is_LoopKernel(next_entry)

\* the entry at which _make_kernels stopped
failing_entry == making[Head(make_stack).i + 1]

\* generate() ended in the build of an entry
stopped_at_entry ==
    pc = "gen_end" /\ make_stack # <<>> /\ Head(make_stack).i < Len(making)

\* the kernels built so far, of the generators and of the driver
built_kernels ==
    {e \in UNION {{gen_kernels[g][i] : i \in 1..Len(gen_kernels[g])} :
                     g \in 1..MaxGenerators}
           \cup {driver_kernels[i] : i \in 1..Len(driver_kernels)} :
        is_LoopKernel(e)}

\* a loop of the kernel carries the tag of the standard vector split
standard_split(knl) ==
    \E i \in 1..Len(knl.inames) : knl.inames[i].tag \in {"l.0", "vec"}

C19_GenerateAllRaisesImmediately ==
    generate_all =>
        /\ pc \in {"gen_start", "gen_end"}
        /\ pc = "gen_end" => outcome = "NotImplementedError"
        /\ created = {}
        /\ built_kernels = {}

\* every entry of the list is a built kernel
all_built(knls) == \A i \in 1..Len(knls) : is_LoopKernel(knls[i])

\* C20: when _process_args has started on the kernel list of the wrapper or of the
\* driver, every descriptor of the generator and of each of its transitive dependencies
\* has been built, and the list it reads holds built kernels only
C20_BuiltBeforeResolution ==
    pc \in {"wrapper_compile", "driver_compile"} =>
        /\ \A g \in generated : all_built(gen_kernels[g])
        /\ all_built(resolution_kernels)
        /\ pc = "driver_compile" => all_built(driver_kernels)

\* resolution has started for a generator with a dependency of a dependency
C20_Witness ==
    /\ pc = "wrapper_compile"
    /\ resolution_kernels # <<>>
    /\ \E g \in generated : g \notin depended_on({1}) \cup {1}
    /\ \A g \in generated : all_built(gen_kernels[g])

----------------------------------------------------------------------------
(* The assembly of the driver: _generate_driver_kernel, lines 1905-1941, and *)
(* the part of _merge_kernels that packs the arrays named *_local, makes    *)
(* the calls, replaces the fake calls and puts the pointer unpacks before   *)
(* the calls, lines 1608-1632, 1663-1725 and 1741-1757.  A text is a        *)
(* sequence of symbols: a symbol is a character, or one of the literals     *)
(* "work_size", "_local", "int const ", ", ", "double* " and "void " that   *)
(* the code matches or emits as a whole.  The bodies are what the kernel    *)
(* compiler returns for the kernels.  The generator is a c or an opencl     *)
(* generator (lang), with or without a pinned work size (loopy_work_size).  *)

\* the variables the driver assembly leaves alone
DriverOthers == <<ArgsMemVars, buffer_args, loopy_work_size, arg_index, BarrierVars, SpecializeVars, GenerateVars, MergeVars>>

DriverOthersIdle == ArgsMemIdle /\ buffer_args = <<>> /\ arg_index = 0 /\ barriers = <<>> /\ instructions_in = <<>> /\ instructions = <<>> /\ barrier_index = 0 /\ SpecializeIdle /\ GenerateIdle /\ MergeIdle

\* text[i:].startswith(pattern), i counted from 1
occurs_at(text, pattern, i) ==
    /\ i + Len(pattern) - 1 <= Len(text)
    /\ SubSeq(text, i, i + Len(pattern) - 1) = pattern

\* pattern in text
str_in(pattern, text) ==
    \/ pattern = <<>>
    \/ \E i \in 1..Len(text) : occurs_at(text, pattern, i)

\* only the first occurrence is replaced
RECURSIVE replace_once(_, _, _)
replace_once(text, old, new) ==
    IF text = <<>> THEN <<>>
    ELSE IF occurs_at(text, old, 1)
         THEN new \o SubSeq(text, Len(old) + 1, Len(text))
         ELSE <<Head(text)>> \o replace_once(Tail(text), old, new)

\* text.replace(old, new), and re.sub of a literal pattern: the occurrences are
\* replaced from the left, without overlap
RECURSIVE str_replace(_, _, _)
str_replace(text, old, new) ==
    IF text = <<>> THEN <<>>
    ELSE IF occurs_at(text, old, 1)
         THEN new \o str_replace(SubSeq(text, Len(old) + 1, Len(text)), old, new)
         ELSE <<Head(text)>> \o str_replace(Tail(text), old, new)

\* sep.join(texts)
RECURSIVE str_join(_, _)
str_join(sep, texts) ==
    IF texts = <<>> THEN <<>>
    ELSE IF Len(texts) = 1 THEN texts[1]
    ELSE texts[1] \o sep \o str_join(sep, Tail(texts))

\* text.split('\n')
RECURSIVE split_lines(_, _)
split_lines(text, line) ==
    IF text = <<>> THEN <<line>>
    ELSE IF Head(text) = "\n" THEN <<line>> \o split_lines(Tail(text), <<>>)
    ELSE split_lines(Tail(text), Append(line, Head(text)))

\* the number of blanks a line starts with
RECURSIVE leading_blanks(_)
leading_blanks(line) ==
    IF line = <<>> \/ Head(line) # " " THEN 0 ELSE 1 + leading_blanks(Tail(line))

\* textwrap.dedent(text) for texts indented with blanks: the margin common to the
\* lines that hold more than blanks is removed, a line of blanks becomes empty
dedent(text) ==
    LET lines == split_lines(text, <<>>)
        full == {i \in 1..Len(lines) : leading_blanks(lines[i]) < Len(lines[i])}
        margin == IF full = {} THEN 0
                  ELSE CHOOSE m \in {leading_blanks(lines[i]) : i \in full} :
                          \A i \in full : m <= leading_blanks(lines[i])
    IN str_join(<<"\n">>, [i \in 1..Len(lines) |->
                              IF i \in full
                              THEN SubSeq(lines[i], margin + 1, Len(lines[i]))
                              ELSE <<>>])

\* text.splitlines(): the lines of the text; a line end at the end of the text starts
\* no further line
splitlines(text) ==
    LET lines == split_lines(text, <<>>)
    IN IF lines[Len(lines)] = <<>> THEN SubSeq(lines, 1, Len(lines) - 1) ELSE lines

\* _find_indent, lines 2801-2830: the lines of the dedented value, every line but the
\* first behind the whitespace the line of the key starts with
find_indent(whitespace, value) ==
    LET lines == splitlines(dedent(value))
    IN str_join(<<"\n">>, [i \in 1..Len(lines) |->
                              IF i = 1 THEN lines[i] ELSE whitespace \o lines[i]])

\* subs_at_indent(template, insns=instructions), lines 2833-2855, for the template of
\* the driver: the loop over the initial conditions around ${insns}, which stands at
\* the start of its line
subs_at_indent(insns) == <<"f", "o", "r", "{">> \o find_indent(<<>>, insns) \o <<"}">>

\* re.sub(r'(int const work_size(?:, )?)', '', text), line 1540
RECURSIVE remove_work_size_parameter(_)
remove_work_size_parameter(text) ==
    IF text = <<>> THEN <<>>
    ELSE IF occurs_at(text, <<"int const ", "work_size", ", ">>, 1)
         THEN remove_work_size_parameter(SubSeq(text, 4, Len(text)))
    ELSE IF occurs_at(text, <<"int const ", "work_size">>, 1)
         THEN remove_work_size_parameter(SubSeq(text, 3, Len(text)))
    ELSE <<Head(text)>> \o remove_work_size_parameter(Tail(text))

\* _remove_work_size, lines 1535-1546: the four replacers in their order
remove_work_size(text) ==
    LET t1 == remove_work_size_parameter(text)
        t2 == str_replace(t1, <<"(", "work_size", ", ">>, <<"(">>)
        t3 == str_replace(t2, <<", ", "work_size", ", ">>, <<", ">>)
    IN str_replace(t3, <<", ", "work_size", ")">>, <<")">>)

\* _get_kernel_call for a kernel, lines 1111-1122: "${name}(${args});\n"
get_kernel_call(knl) ==
    knl.name \o <<"(">> \o str_join(<<", ">>, knl.args) \o <<")", ";", "\n">>

\* the function body the kernel compiler returns for a kernel (lines 1641-1657 take
\* it from lp.generate_code_v2): the signature, then the statements of the kernel
get_func_body(knl) ==
    <<"void ">> \o knl.name \o <<"(">>
       \o str_join(<<", ">>, [i \in 1..Len(knl.args) |->
                                 IF knl.args[i] = <<"work_size">>
                                 THEN <<"int const ", "work_size">>
                                 ELSE <<"double* ">> \o knl.args[i]])
       \o <<")", "{">> \o knl.statements \o <<"}">>

\* line 1935: the placeholder of the fake call of the driver, self.name + '()'
dummy_call == generator_name \o <<"(", ")">>

\* the name of kernels[1], the replace_in of the fake call (line 1935)
replace_in_name == <<"d">>

\* the wrapping kernel, self.kernel, the replace_with of the fake call: made by
\* _dummy_wrapper_kernel (line 1418) from kernel_data = [w_size, rwk] (line 1618)
wrapping_kernel == [name |-> generator_name, args |-> << <<"work_size">>, <<"r">> >>]

\* FakeCall.match, lines 69-81, for the fake call of the driver
fake_call_match(knl, insns, for_driver) ==
    IF for_driver THEN str_in(knl.name, insns) /\ str_in(replace_in_name, insns)
    ELSE str_in(knl.name, replace_in_name)

\* name.endswith(suffix)
endswith(text, suffix) ==
    /\ Len(suffix) <= Len(text)
    /\ SubSeq(text, Len(text) - Len(suffix) + 1, Len(text)) = suffix

\* the kernel data the kernels of a merge take as arguments: the work size (a
\* lp.ValueArg), arrays in global memory whose first dimension is the work size (an
\* array named *_local is the driver's copy of an array), an array of integers, and
\* the local array l that _process_args has hoisted into the arguments of its kernel
\* (lines 1268-1281, after the list of arguments was made)
KernelData ==
    { ValueArg(<<"work_size">>, "int32"),
      GlobalArg(<<"a">>, "float64", FALSE, <<Sym("work_size"), Dim(2)>>),
      GlobalArg(<<"b">>, "float64", FALSE, <<Sym("work_size"), Dim(3)>>),
      GlobalArg(<<"d", "a">>, "float64", FALSE, <<Sym("work_size"), Dim(3)>>),
      GlobalArg(<<"a", "_local">>, "float64", FALSE, <<Sym("work_size"), Dim(2)>>),
      GlobalArg(<<"n">>, "int32", FALSE, <<Sym("work_size"), Dim(2)>>),
      ArrayArg(<<"l">>, "float64", FALSE, <<Dim(2)>>, "LOCAL") }

argument_named(n) == CHOOSE x \in KernelData : x.name = n

\* the symbols of names in the order of their first characters
Alphabet == <<"_local", "a", "b", "c", "d", "i", "j", "k", "l", "n", "o", "r", "s", "w", "x">>

symbol_rank(c) == CHOOSE i \in 1..Len(Alphabet) : Alphabet[i] = c

\* s < t for two names, as Python compares strings
RECURSIVE name_before(_, _)
name_before(s, t) ==
    IF s = <<>> THEN t # <<>>
    ELSE IF t = <<>> THEN FALSE
    ELSE IF Head(s) = Head(t) THEN name_before(Tail(s), Tail(t))
    ELSE symbol_rank(Head(s)) < symbol_rank(Head(t))

\* sorted(names)
RECURSIVE sorted_names(_)
sorted_names(names) ==
    IF names = {} THEN <<>>
    ELSE LET m == CHOOSE x \in names : \A y \in names \ {x} : name_before(x, y)
         IN <<m>> \o sorted_names(names \ {m})

\* lines 1185-1233: 'args' of _process_args, one argument for every name of the
\* arguments of the kernels, in the order of the names, without the value arguments;
\* a hoisted local is no part of it
resolved_arguments(knls) ==
    LET names == UNION {{knls[i].args[j] : j \in 1..Len(knls[i].args)} : i \in 1..Len(knls)}
        arrays == sorted_names({n \in names : /\ ~IsValueArg(argument_named(n))
                                               /\ argument_named(n).scope # "LOCAL"})
    IN [i \in 1..Len(arrays) |-> argument_named(arrays[i])]

\* x.shape[0] == self.work_size, line 1611
first_dimension_is(shape, ws) ==
    IF shape[1].is_int THEN ToString(shape[1].value) = ws ELSE shape[1].name = ws

\* lines 1608-1611: every argument is packed for a wrapper, for a driver the arrays
\* named *_local whose first dimension is the work size
offset_args(arguments, driver, opt) ==
    IF driver
    THEN SelectSeq(arguments, LAMBDA x : /\ endswith(x.name, <<"_local">>)
                                        /\ first_dimension_is(x.shape, work_size(opt)))
    ELSE arguments

\* the loop of _get_working_buffer, lines 1498-1508, from the array it is at
RECURSIVE pack_arrays(_, _, _, _)
pack_arrays(arrays, opt, total, packed) ==
    IF arrays = <<>> THEN [outcome |-> "ok", size_per_work_item |-> total, offsets |-> packed]
    ELSE IF is_integral(Head(arrays).dtype)
    THEN [outcome |-> "AssertionError", size_per_work_item |-> total, offsets |-> packed]
    ELSE LET with_array == dict_set(packed, Head(arrays).name,
                                    format_offset(total, work_size(opt)))
             size == total + item_size(Head(arrays).shape)
             ss == ssizes(Head(arrays).shape)
         IN IF user_specified_work_size(opt)
            THEN pack_arrays(Tail(arrays), opt, size, with_array)
            ELSE IF ss = <<>>
            THEN [outcome |-> "IndexError", size_per_work_item |-> size,
                  offsets |-> with_array]
            ELSE IF ~work_dimension_ok(ss)
            THEN [outcome |-> "AssertionError", size_per_work_item |-> size,
                  offsets |-> with_array]
            ELSE pack_arrays(Tail(arrays), opt, size, with_array)

\* _get_working_buffer(args), lines 1475-1510
get_working_buffer(arrays, opt) == pack_arrays(arrays, opt, 0, <<>>)

\* the text of an offset, '{} * {}' (line 1504)
offset_text(offset) == <<ToString(offset.count), " ", "*", " ", offset.times>>

\* _get_pointer_unpack: 'double* {} = rwk + {};' (line 1533), and for the opencl
\* generator '__global double* {} = rwk + {};' (line 2441)
get_pointer_unpack(l, array, offset) ==
    (IF l = "opencl" THEN <<"_", "_", "g", "l", "o", "b", "a", "l", " ">> ELSE <<>>)
        \o <<"double* ">> \o array \o <<" ", "=", " ", "r", "w", "k", " ", "+", " ">>
        \o offset \o <<";">>

\* lines 1742-1744: a pointer unpack for every item of the offsets
pointer_unpacks(l, packed) ==
    [i \in 1..Len(packed) |->
        get_pointer_unpack(l, packed[i].key, offset_text(packed[i].value))]

\* lines 1625-1632: the working buffer goes to the arguments of the first kernel whose
\* name ends with 'driver'
RECURSIVE append_new(_, _)
append_new(knl_args, kernel_data) ==
    IF kernel_data = <<>> THEN knl_args
    ELSE append_new(IF \E i \in 1..Len(knl_args) : knl_args[i] = Head(kernel_data)
                    THEN knl_args ELSE Append(knl_args, Head(kernel_data)),
                    Tail(kernel_data))

add_working_buffer(knls) ==
    LET drivers == {i \in 1..Len(knls) : endswith(knls[i].name, replace_in_name)}
    IN IF drivers = {} THEN knls
       ELSE LET first_driver == CHOOSE i \in drivers : \A j \in drivers : i <= j
            IN [knls EXCEPT ![first_driver].args = append_new(@, wrapping_kernel.args)]

\* the kernel the loop of lines 1663-1717 is at
current_kernel == driver_list[Len(extra_kernels) + 1]

\* the kernels of the dependencies that _process_args appends, line 1182
DependencyKernels ==
    [name : {<<"k">>, <<"x", "d">>, <<"x">> \o generator_name},
     args : {<< <<"a">> >>, << <<"work_size">>, <<"a">> >>},
     statements : {<<"a", "=", "1", ";">>}]

\* lines 1591 and 1176-1182: _process_args appends the kernels of the dependencies to
\* the list of the driver
DriverArgs ==
    /\ pc = "drv_args"
    /\ \E deps \in {<<>>} \cup ListsOf(DependencyKernels, MaxKernels - 1) :
          driver_list' = driver_list \o deps
    /\ pc' = "drv_buffer"
    /\ UNCHANGED <<outcome, generator_name, extra_kernels, call_instructions,
                   extra_fake_kernels, emitted, size_per_work_item, offsets,
                   DriverOthers>>

\* lines 1608-1632: the arrays named *_local are packed into the working buffer,
\* which goes to the arguments of the driver kernel
DriverWorkingBuffer ==
    /\ pc = "drv_buffer"
    /\ \E r \in {get_working_buffer(offset_args(resolved_arguments(driver_list), TRUE,
                                                 loopy_work_size),
                                     loopy_work_size)} :
          IF r.outcome = "ok"
          THEN /\ size_per_work_item' = r.size_per_work_item
               /\ offsets' = r.offsets
               /\ driver_list' = add_working_buffer(driver_list)
               /\ pc' = "drv_loop"
               /\ UNCHANGED outcome
          ELSE /\ outcome' = r.outcome
               /\ pc' = "drv_done"
               /\ UNCHANGED <<size_per_work_item, offsets, driver_list>>
    /\ UNCHANGED <<generator_name, extra_kernels, call_instructions,
                   extra_fake_kernels, emitted, DriverOthers>>

\* lines 1663-1717: the body and the call of the next kernel, marked when the fake
\* call matches
DriverKernelCode ==
    /\ pc = "drv_loop"
    /\ Len(extra_kernels) < Len(driver_list)
    /\ extra_kernels' = Append(extra_kernels,
                               remove_work_size(get_func_body(current_kernel)))
    /\ \E insns \in {remove_work_size(get_kernel_call(current_kernel))} :
          /\ extra_fake_kernels' =
                IF fake_call_match(current_kernel, insns, TRUE)
                THEN Append(extra_fake_kernels, Len(extra_kernels) + 1)
                ELSE extra_fake_kernels
          /\ call_instructions' = Append(call_instructions, insns)
    /\ UNCHANGED <<pc, outcome, generator_name, driver_list, emitted, size_per_work_item,
                   offsets, DriverOthers>>

\* lines 1719-1725: the dummy call is replaced in the body of a marked kernel
FixFakeCall ==
    /\ pc = "drv_loop"
    /\ Len(extra_kernels) = Len(driver_list)
    /\ extra_fake_kernels # <<>>
    /\ \E knl_call \in {remove_work_size(get_kernel_call(wrapping_kernel))} :
          extra_kernels' =
             [extra_kernels EXCEPT ![Head(extra_fake_kernels)] =
                 str_replace(@, dummy_call, SubSeq(knl_call, 1, Len(knl_call) - 2))]
    /\ extra_fake_kernels' = Tail(extra_fake_kernels)
    /\ UNCHANGED <<pc, outcome, generator_name, driver_list, call_instructions,
                   emitted, size_per_work_item, offsets, DriverOthers>>

\* lines 1741-1763 and 1937: the pointer unpacks of the packed arrays go before the
\* calls (no barrier is applied for a driver, and local_decls of line 1639 is empty),
\* the instructions are joined and put into the template of the driver, the bodies
\* are joined
EmitDriver ==
    /\ pc = "drv_loop"
    /\ Len(extra_kernels) = Len(driver_list)
    /\ extra_fake_kernels = <<>>
    /\ emitted' = << subs_at_indent(str_join(<<"\n">>, pointer_unpacks(lang, offsets)
                                                       \o call_instructions)),
                     str_join(<<"\n">>, extra_kernels) >>
    /\ pc' = "drv_done"
    /\ outcome' = "ok"
    /\ UNCHANGED <<generator_name, driver_list, extra_kernels, call_instructions,
                   extra_fake_kernels, size_per_work_item, offsets, DriverOthers>>

\* the argument lists of the kernels of the driver
NoDuplicates(s) == \A i, j \in 1..Len(s) : s[i] = s[j] => i = j

DriverArgLists ==
    {s \in ListsOf({<<"work_size">>, <<"a">>, <<"d", "a">>, <<"a", "_local">>}, 2) :
        NoDuplicates(s)}

\* the kernels drivers.get_driver describes: copy_in, driver, copy_out; the driver
\* holds the dummy call of the wrapping kernel once or twice
DriverKernels(dummy) ==
    {<<[name |-> <<"c", "i">>, args |-> a1, statements |-> <<"a", "=", "1", ";">>],
       [name |-> <<"d">>, args |-> a2, statements |-> s],
       [name |-> <<"c", "o">>, args |-> << <<"work_size">>, <<"a">> >>,
        statements |-> <<"a", "=", "1", ";">>]>> :
        a1 \in DriverArgLists, a2 \in DriverArgLists,
        s \in {dummy \o <<";">>, dummy \o <<";">> \o dummy \o <<";">>}}

\* utils.enum_to_string(kernel_type): the names of two kernel types
GeneratorNames == {<<"j">>, <<"s", "r">>}

InitDriver ==
    /\ \E n \in GeneratorNames :
          /\ generator_name = n
          /\ driver_list \in DriverKernels(n \o <<"(", ")">>)
    /\ extra_kernels = <<>>
    /\ call_instructions = <<>>
    /\ extra_fake_kernels = <<>>
    /\ emitted = <<>>
    /\ lang \in {"c", "opencl"}
    /\ loopy_work_size \in {"None", "2"}
    /\ size_per_work_item = 0
    /\ offsets = <<>>
    /\ pc = "drv_args"
    /\ outcome = "none"
    /\ DriverOthersIdle

NextDriver ==
    DriverArgs \/ DriverWorkingBuffer \/ DriverKernelCode \/ FixFakeCall \/ EmitDriver

SpecDriver == InitDriver /\ [][NextDriver]_vars

----------------------------------------------------------------------------
(* Claims about the driver assembly *)

\* the symbols of identifiers
Letters == {"a", "c", "d", "f", "i", "j", "k", "o", "r", "s", "x"}

\* a call of the wrapping kernel with arguments: its name, not as the end of a longer
\* identifier, then "(" and something else than ")"
real_call_in(text) ==
    \E i \in 1..Len(text) :
        /\ occurs_at(text, generator_name \o <<"(">>, i)
        /\ i = 1 \/ text[i - 1] \notin Letters
        /\ i + Len(generator_name) + 1 <= Len(text)
        /\ text[i + Len(generator_name) + 1] # ")"

\* C18: the text emitted for the driver, its body and the bodies of its kernels, holds
\* no occurrence of the placeholder '<name>()' and at least one call of the wrapping
\* kernel with arguments
C18_FakeCallReplaced ==
    pc = "drv_done" =>
        /\ ~str_in(dummy_call, emitted[1])
        /\ ~str_in(dummy_call, emitted[2])
        /\ real_call_in(emitted[1]) \/ real_call_in(emitted[2])

\* a driver whose body held the placeholder twice was assembled with the kernel of a
\* dependency in its list and the pointer unpack of a packed array before the calls
C18_Witness ==
    /\ pc = "drv_done"
    /\ Len(driver_list) > 3
    /\ offsets # <<>>
    /\ str_in(pointer_unpacks(lang, offsets)[1], emitted[1])
    /\ str_in(dummy_call \o <<";">> \o dummy_call, get_func_body(driver_list[2]))
    /\ real_call_in(emitted[2])

----------------------------------------------------------------------------
(* Claims about kernel_generator.name *)

\* the name given at construction to a generator of kernel type dummy (line 320)
given_name == "my_kernel"

\* C30: reading the name of the generator terminates with a name: the name given at
\* construction for the kernel type dummy, the string of the kernel type otherwise; no
\* call that reads the name ends in a RecursionError
C30_NameTerminates ==
    /\ name(kernel_type) = (IF kernel_type = "dummy" THEN given_name ELSE kernel_type)
    /\ outcome # "RecursionError"

----------------------------------------------------------------------------
(* Claims about the phases of generate() *)

\* the part of the log that belongs to the last call of generate()
RECURSIVE last_call(_)
last_call(phase_log) ==
    IF phase_log = <<>> \/ count_of("generate", Tail(phase_log)) = 0 THEN phase_log
    ELSE last_call(Tail(phase_log))

\* the phases of generate(), lines 693-708
all_phases ==
    <<"generate", "build_kernels", "wrapping_kernel", "compiling_program",
      "driver_kernel", "calling_program", "calling_header", "common", "copy_deps">>

\* every descriptor can be built (an entry keeps the fields of its descriptor when it
\* is replaced by its kernel), the generator does not ask for the wrappers of its
\* dependencies, and no generator depends on itself
valid_configuration ==
    /\ acyclic
    /\ \A g \in generated : \A i \in 1..Len(gen_kernels[g]) :
          LET e == gen_kernels[g][i]
          IN /\ ~unvectorizable(e)
             /\ built(e).outcome = "ok"
    /\ ~(generate_all /\ gen_depends_on[1] # <<>>)

\* C21: for a valid configuration generate() runs every phase once, in the order
\* build kernels, wrapping kernel, compiling program, driver kernel, calling program,
\* calling header, common files, and returns normally; generate() ends by returning
\* after all phases or by raising an error
C21_PhasesOnceInOrder ==
    pc = "gen_end" =>
        /\ valid_configuration => outcome = "ok"
        /\ outcome = "ok" => last_call(phases) = all_phases
        /\ outcome \in {"ok", "AssertionError", "LoopyError", "NotImplementedError",
                        "RecursionError"}

\* what generate() does: it starts its phases in that order and ends with an error
\* in every configuration, at the latest in the calling program
GenerateNeverReturns ==
    pc = "gen_end" =>
        /\ outcome \in {"AssertionError", "LoopyError", "NotImplementedError",
                        "RecursionError", "AttributeError", "NameError"}
        /\ Len(last_call(phases)) <= 6
        /\ last_call(phases) = SubSeq(all_phases, 1, Len(last_call(phases)))
        /\ outcome \in {"AttributeError", "NameError"}
              => Len(last_call(phases)) \in {4, 6}

----------------------------------------------------------------------------
(* Claims about the kernel lists during the merges *)

\* the entries of a list, as a set
entries(knls) == {knls[i] : i \in 1..Len(knls)}

\* the names drivers.get_driver gives the kernels of the driver
driver_names == {driver_info[i].name : i \in 1..Len(driver_info)}

\* C22: the resolution of a driver merge works on the kernels of the driver only, no
\* kernel of a dependency is in the resolved set; the resolution of the wrapper merge
\* includes the kernels of the dependencies
C22_DriverResolvesOwnKernels ==
    /\ pc = "driver_compile" =>
          \A i \in 1..Len(resolution_kernels) : resolution_kernels[i].name \in driver_names
    /\ pc = "wrapper_compile" =>
          \A d \in depended_on({1}) : entries(gen_kernels[d]) \subseteq entries(resolution_kernels)

\* C29: no step of generate() changes the membership of a kernel list: the list of
\* every generator keeps its length and each entry keeps its name, so that no kernel
\* of a dependency is appended to the generator's own list by the wrapper merge
C29_KernelListsKeepMembers ==
    [][\A g \in 1..MaxGenerators :
          /\ Len(gen_kernels'[g]) = Len(gen_kernels[g])
          /\ \A i \in 1..Len(gen_kernels[g]) :
                gen_kernels'[g][i].name = gen_kernels[g][i].name]_vars

\* the lists of the dependencies are left alone by the merges
DependencyListsKeepMembers ==
    [][\A g \in 2..MaxGenerators :
          /\ Len(gen_kernels'[g]) = Len(gen_kernels[g])
          /\ \A i \in 1..Len(gen_kernels[g]) :
                gen_kernels'[g][i].name = gen_kernels[g][i].name]_vars

\* C28: no descriptor is built twice: every entry of every kernel list has been built
\* once if it is a kernel and never if it is a descriptor, whatever the number of
\* calls of _make_kernels that visited it
C28_BuiltAtMostOnce ==
    \A e \in UNION {entries(gen_kernels[g]) : g \in 1..MaxGenerators} \cup entries(driver_kernels) :
        e.builds = (IF e.kind = "kernel" THEN 1 ELSE 0)

\* a second call of generate() is skipping the built kernels of a generator that
\* two generators depend on
C28_Witness ==
    /\ pc = "make_kernels"
    /\ count_of("generate", phases) = 2
    /\ Head(make_stack).i = Len(making)
    /\ Len(making) > 0
    /\ \E g \in 2..MaxGenerators :
          /\ g \in depended_on({1}) /\ g \in depended_on(depended_on({1}))
          /\ \A i \in 1..Len(gen_kernels[g]) : gen_kernels[g][i].builds = 1

----------------------------------------------------------------------------
(* Claims about the hoisting of local temporaries (lines 1268-1288) *)

\* the local-scope temporaries of a kernel
local_temps_of(knl) == SelectSeq(knl.temporary_variables, LAMBDA x : x.scope = "LOCAL")

\* C27: with hoist_locals, after a successful argument resolution every local-scope
\* temporary of every kernel the hoisting worked on is an argument of that kernel,
\* is absent from the kernel's temporaries, from the remaining temporaries and from
\* the returned constants, and is in the returned local list; without hoist_locals
\* the local list is empty and the hoisting changes no kernel.
C27_LocalsHoisted ==
    Returned =>
        IF hoist_locals
        THEN /\ Len(kernels) = Len(resolved_kernels)
             /\ \A i \in 1..Len(resolved_kernels) :
                  \A x \in Range(local_temps_of(resolved_kernels[i])) :
                     /\ kernels[i].name = resolved_kernels[i].name
                     /\ Contains(kernels[i].args, argify(x))
                     /\ \A v \in Range(kernels[i].temporary_variables) : v.name # x.name
                     /\ ~Contains(remaining_temps, x)
                     /\ ~Contains(constants, x)
                     /\ Contains(local, x)
        ELSE /\ local = <<>>
             /\ kernels = resolved_kernels

C27_Witness ==
    /\ Returned
    /\ hoist_locals
    /\ Len(resolved_kernels) > 1
    /\ \A i \in 1..Len(resolved_kernels) : local_temps_of(resolved_kernels[i]) # <<>>
    /\ Contains(extra_kernel_data, lL)
    /\ constants # <<>>

----------------------------------------------------------------------------
(* Claims about _remove_work_size (lines 1535-1546, applied at lines 1706-1707) *)

\* a kernel without the work-size entry of its argument list
without_work_size(knl) ==
    [knl EXCEPT !.args = SelectSeq(knl.args, LAMBDA a : a # <<"work_size">>)]

\* a parameter or argument list with an empty place: "(, ", ", )" or ", , "
dangling_comma(text) ==
    \/ str_in(<<"(", ", ">>, text)
    \/ str_in(<<", ", ")">>, text)
    \/ str_in(<<", ", ", ">>, text)

\* C25: with the work size not pinned by the user, every call text and every function
\* signature that went through _remove_work_size holds no work-size parameter,
\* whatever its position in the list (first, middle, last, only entry), keeps the
\* other parameters in their order and is a well-formed list.
C25_WorkSizeRemoved ==
    \A i \in 1..Len(call_instructions) :
        /\ call_instructions[i] = get_kernel_call(without_work_size(driver_list[i]))
        /\ ~str_in(<<"work_size">>, extra_kernels[i])
        /\ ~dangling_comma(extra_kernels[i])

----------------------------------------------------------------------------
(* kernel_generator._merge_kernels: the packing of the arguments (lines     *)
(* 1608-1612) and the assembly of the instruction text and of the preamble  *)
(* text (lines 1635-1639, 1662-1717 and 1741-1763).  The texts are          *)
(* sequences of symbols as in the driver assembly; the bodies of the        *)
(* kernels (extra_kernels) are followed in the driver assembly.             *)

\* the variables the assembly of the texts leaves alone
MergeOthers == <<ArgsMemVars, BufferVars, BarrierVars, SpecializeVars, GenerateVars, DriverVars>>

MergeOthersIdle == ArgsMemIdle /\ buffer_args = <<>> /\ size_per_work_item = 0 /\ offsets = <<>> /\ arg_index = 0 /\ SpecializeIdle /\ GenerateIdle /\ DriverIdle

\* _rec_check_name, lines 1680-1685
RECURSIVE rec_check_name(_, _)
rec_check_name(decl, names) ==
    IF decl.has = "name" THEN decl.name \in names
    ELSE IF decl.has = "subdecl" THEN rec_check_name(decl.subdecl, names)
    ELSE FALSE

\* lines 1677-1690: init_list, the texts of the initializers of one program that are
\* not migrated constants and not in 'inits'
RECURSIVE new_initializers(_, _, _)
new_initializers(contents, names, seen) ==
    IF contents = <<>> THEN <<>>
    ELSE (IF /\ Head(contents).cls = "Initializer"
             /\ ~rec_check_name(Head(contents).vdecl, names)
             /\ ~Contains(seen, Head(contents).text)
          THEN <<Head(contents).text>> ELSE <<>>)
         \o new_initializers(Tail(contents), names, seen)

\* lines 1694-1696: an item that is no initializer, no line and no function body
unsupported(contents) ==
    \E i \in 1..Len(contents) : contents[i].cls \notin {"Initializer", "Line", "FunctionBody"}

\* self.barrier_templates[kind] + utils.line_end[self.lang] as a text, lines 2381-2384
\* and 2675-2676
barrier_statement(kind) ==
    <<"barrier", "(",
      IF kind = "global" THEN "CLK_GLOBAL_MEM_FENCE" ELSE "CLK_LOCAL_MEM_FENCE",
      ")", ";">>

\* the loop of lines 2668-2676 over the barriers that are left
RECURSIVE insert_barriers(_, _)
insert_barriers(enumerated, bars) ==
    IF bars = <<>> THEN [outcome |-> "ok", instructions |-> enumerated]
    ELSE LET index == insert_index(enumerated, Head(bars).after)
         IN IF index = 0
            THEN [outcome |-> "StopIteration", instructions |-> enumerated]
            ELSE IF Head(bars).before # element_before(enumerated, index).id
            THEN [outcome |-> "AssertionError", instructions |-> enumerated]
            ELSE insert_barriers(
                    list_insert(enumerated, index,
                                [id |-> -1, text |-> barrier_statement(Head(bars).kind)]),
                    Tail(bars))

\* apply_barriers on the call texts: the list as it is for the base generator (lines
\* 476-493), with the barrier statements for the opencl generator (lines 2649-2679)
apply_barriers(l, bars, instrs) ==
    IF l # "opencl" THEN [outcome |-> "ok", instructions |-> instrs]
    ELSE LET r == insert_barriers(enumerate(instrs), bars)
         IN [outcome |-> r.outcome,
             instructions |-> [i \in 1..Len(r.instructions) |-> r.instructions[i].text]]

\* lines 1747-1749: the barriers go into the instructions of a wrapper
barrier_adjusted ==
    IF ~assembling_driver THEN apply_barriers(lang, barriers, merge_instructions)
    ELSE [outcome |-> "ok", instructions |-> merge_instructions]

\* line 1639: local_decls is created empty, and nothing is added to it
local_decls == <<>>

\* the kernel the loop of line 1663 is at
merging == merge_kernels[Len(merge_instructions) + 1]

\* lines 1608-1612: the arguments of the kernels are packed into the working buffer,
\* all of them for a wrapper; an assertion of _get_working_buffer ends the merge
MergeWorkingBuffer ==
    /\ pc = "merge_buffer"
    /\ \E r \in {get_working_buffer(offset_args(resolved_arguments(merge_kernels),
                                                 assembling_driver, loopy_work_size),
                                     loopy_work_size)} :
          IF r.outcome = "ok"
          THEN /\ merge_offsets' = r.offsets
               /\ pc' = "merge_loop"
               /\ UNCHANGED outcome
          ELSE /\ outcome' = r.outcome
               /\ pc' = "merge_done"
               /\ UNCHANGED merge_offsets
    /\ UNCHANGED <<merge_kernels, target_preambles, merge_readonly, assembling_driver,
                   preambles, inits, merge_instructions, merge_result, MergeOthers>>

\* lines 1663-1717 for a program with an unsupported item
MergeUnsupported ==
    /\ pc = "merge_loop"
    /\ Len(merge_instructions) < Len(merge_kernels)
    /\ unsupported(merging.contents)
    /\ preambles' = append_new(preambles, merging.device_preambles)
    /\ pc' = "merge_done"
    /\ outcome' = "NotImplementedError"
    /\ UNCHANGED <<merge_kernels, target_preambles, merge_readonly, merge_offsets,
                   assembling_driver, inits, merge_instructions, merge_result, MergeOthers>>

\* lines 1663-1717 for one kernel: its preambles, its initializers, its call
MergeKernelCode ==
    /\ pc = "merge_loop"
    /\ Len(merge_instructions) < Len(merge_kernels)
    /\ ~unsupported(merging.contents)
    /\ preambles' = append_new(preambles, merging.device_preambles)
    /\ inits' = inits \o new_initializers(merging.contents, merge_readonly, inits)
    /\ merge_instructions' =
          Append(merge_instructions, remove_work_size(get_kernel_call(merging)))
    /\ UNCHANGED <<pc, outcome, merge_kernels, target_preambles, merge_readonly,
                   merge_offsets, assembling_driver, merge_result, MergeOthers>>

\* lines 1741-1749: apply_barriers raises
MergeBarrierFails ==
    /\ pc = "merge_loop"
    /\ Len(merge_instructions) = Len(merge_kernels)
    /\ barrier_adjusted.outcome # "ok"
    /\ pc' = "merge_done"
    /\ outcome' = barrier_adjusted.outcome
    /\ UNCHANGED <<merge_kernels, target_preambles, merge_readonly, merge_offsets,
                   assembling_driver, preambles, inits, merge_instructions, merge_result,
                   MergeOthers>>

\* lines 1741-1763: the instruction text and the preamble text
MergeAssemble ==
    /\ pc = "merge_loop"
    /\ Len(merge_instructions) = Len(merge_kernels)
    /\ barrier_adjusted.outcome = "ok"
    /\ LET adjusted == barrier_adjusted.instructions
           \* instructions[0:0] = pointer_unpacks[:], then instructions[0:0] = local_decls
           with_unpacks == pointer_unpacks(lang, merge_offsets) \o adjusted
           with_decls == local_decls \o with_unpacks
           all_preambles ==
              preambles \o SelectSeq(target_preambles, LAMBDA x : ~Contains(preambles, x))
           texts == all_preambles \o inits
       IN merge_result' = << str_join(<<"\n">>, with_decls),
                             str_join(<<"\n">>, [i \in 1..Len(texts) |-> dedent(texts[i])]) >>
    /\ pc' = "merge_done"
    /\ outcome' = "ok"
    /\ UNCHANGED <<merge_kernels, target_preambles, merge_readonly, merge_offsets,
                   assembling_driver, preambles, inits, merge_instructions, MergeOthers>>

(* The inputs of the assembly *)

\* cgen declarations: a value with a name, and a declaration that wraps another one
named(n) == [has |-> "name", name |-> n]

wrapping(decl) == [has |-> "subdecl", subdecl |-> decl]

\* cgen.Initializer(vdecl, data) with the text str() gives
Initializer(vdecl, n) ==
    [cls |-> "Initializer", vdecl |-> vdecl,
     text |-> <<"double const ">> \o n \o <<"[", "]", " ", "=", " ", "{", "0", "}", ";">>]

\* the initializer of a constant t, and an initializer that declares the name of the
\* argument b
InitT == Initializer(named(<<"t">>), <<"t">>)

InitB == Initializer(wrapping(named(<<"b">>)), <<"b">>)

\* the contents of the programs the kernel compiler returns
ProgramContents ==
    { <<>>, <<InitT>>, <<InitT, InitB>>, <<InitB, InitB>>,
      <<InitT, [cls |-> "Comment"]>> }

\* the device preambles of the programs
DevicePreambles ==
    { <<>>, << <<"#", "p">> >>, << <<"#", "p">>, <<"#", "q">> >>,
      << <<"#", "q">>, <<"#", "q">> >> }

\* the argument names of the first kernel, as _process_args leaves them: l is a
\* hoisted local, n an array of integers
MergeArgLists ==
    { << <<"a">> >>, << <<"work_size">>, <<"a">> >>, << <<"a">>, <<"l">> >>,
      << <<"b">>, <<"a">> >>, << <<"a">>, <<"a", "_local">> >>, << <<"a">>, <<"n">> >> }

\* the argument names of the second kernel
SecondArgLists == { << <<"a">> >>, << <<"work_size">>, <<"b">> >> }

\* the preamble of the OpenMP and OpenCL targets that defines the work size
work_size_preamble ==
    <<"\n", " ", " ", "#", "i", "\n", " ", " ", " ", "#", "d", "\n",
      " ", " ", "#", "e", "\n", " ", " ">>

\* target_preambles of the c and the opencl generator (lines 2259-2268, 2409-2418)
generator_target_preambles(opt) ==
    IF user_specified_work_size(opt) THEN <<>> ELSE <<work_size_preamble>>

\* the kernels of a merge: kernel i is called k, then j
MergeKernels ==
    {ks \in ListsOf([name : {<<"k">>, <<"j">>}, args : MergeArgLists \cup SecondArgLists,
                     device_preambles : DevicePreambles, contents : ProgramContents],
                    MaxKernels) :
        /\ \A i \in 1..Len(ks) : ks[i].name = <<"k", "j">>[i]
        /\ ks[1].args \in MergeArgLists
        /\ Len(ks) > 1 => ks[2].args \in SecondArgLists}

\* the generator of the merge: a c generator (its barriers are not used) or an opencl
\* generator, with no barrier, a barrier between kernels 0 and 1, or a barrier before
\* kernel 1 that names kernel 1 as the kernel before it
MergeGenerators ==
    {[lang |-> "c", barriers |-> <<>>],
     [lang |-> "c", barriers |-> <<[before |-> 0, after |-> 1, kind |-> "global"]>>],
     [lang |-> "opencl", barriers |-> <<>>],
     [lang |-> "opencl", barriers |-> <<[before |-> 0, after |-> 1, kind |-> "global"]>>],
     [lang |-> "opencl", barriers |-> <<[before |-> 1, after |-> 1, kind |-> "local"]>>]}

\* the names of the arrays the kernels take as arguments
array_names(knls) ==
    {resolved_arguments(knls)[i].name : i \in 1..Len(resolved_arguments(knls))}

\* hoist_locals of the generator of a language: False (line 464), True for the opencl
\* generator (line 2692)
hoists_locals(l) == l = "opencl"

\* _merge_kernels after _process_args and _process_memory (lines 1591-1595): the
\* kernels, with a hoisted local for a generator that hoists, and in 'readonly' names
\* of arrays the kernels take as arguments (the arrays that no kernel writes: none,
\* all, or all but a)
InitMerge ==
    /\ \E g \in MergeGenerators : lang = g.lang /\ barriers = g.barriers
    /\ instructions_in = <<>>
    /\ instructions = <<>>
    /\ barrier_index = 0
    /\ loopy_work_size \in {"None", "2"}
    /\ merge_kernels \in MergeKernels
    /\ hoists_locals(lang) \/ \A i \in 1..Len(merge_kernels) :
                                  ~Contains(merge_kernels[i].args, <<"l">>)
    /\ target_preambles = generator_target_preambles(loopy_work_size)
    /\ merge_readonly \in {{}, array_names(merge_kernels),
                            array_names(merge_kernels) \ {<<"a">>}}
    /\ merge_offsets = <<>>
    /\ assembling_driver \in BOOLEAN
    /\ preambles = <<>>
    /\ inits = <<>>
    /\ merge_instructions = <<>>
    /\ merge_result = <<>>
    /\ pc = "merge_buffer"
    /\ outcome = "none"
    /\ MergeOthersIdle

NextMerge ==
    MergeWorkingBuffer \/ MergeUnsupported \/ MergeKernelCode \/ MergeBarrierFails
    \/ MergeAssemble

SpecMerge == InitMerge /\ [][NextMerge]_vars

----------------------------------------------------------------------------
(* Claims about the texts _merge_kernels assembles *)

Assembled == pc = "merge_done" /\ outcome = "ok"

\* the hoisted locals the kernels of the merge take as arguments
hoisted_locals ==
    SelectSeq(<< <<"l">> >>, LAMBDA n : \E i \in 1..Len(merge_kernels) :
                                           Contains(merge_kernels[i].args, n))

\* the declaration of a local array in the wrapping kernel (a cgen.CLLocal)
local_declaration(n) == <<"__local ", "double ">> \o n \o <<"[", "]", ";">>

\* the arrays that are packed into the working buffer
packed_arrays ==
    offset_args(resolved_arguments(merge_kernels), assembling_driver, loopy_work_size)

\* the offset the packer gave an array
offset_of(array) ==
    merge_offsets[CHOOSE i \in 1..Len(merge_offsets) : merge_offsets[i].key = array].value

\* the pointer-unpack statements of the target, one for every packed array
pointer_unpack_statements ==
    [i \in 1..Len(packed_arrays) |->
        get_pointer_unpack(lang, packed_arrays[i].name,
                           offset_text(offset_of(packed_arrays[i].name)))]

\* the packer gives the first packed array the offset 0 and every packed array one
FirstArrayAtOffsetZero ==
    pc \in {"merge_loop", "merge_done"} /\ outcome \in {"none", "ok"} =>
        /\ Len(merge_offsets) = Len(packed_arrays)
        /\ \A i \in 1..Len(packed_arrays) : merge_offsets[i].key = packed_arrays[i].name
        /\ merge_offsets # <<>> => merge_offsets[1].value.count = 0

\* C23: the instruction text _merge_kernels returns is the pointer-unpack statements,
\* one for every packed array, then the declarations of the hoisted locals, then the
\* (barrier-adjusted) call instructions in the order of the kernels.
C23_InstructionOrder ==
    Assembled =>
        merge_result[1] =
            str_join(<<"\n">>,
                     pointer_unpack_statements
                     \o [i \in 1..Len(hoisted_locals) |-> local_declaration(hoisted_locals[i])]
                     \o barrier_adjusted.instructions)

\* the instruction text is the pointer unpacks and the calls, whatever was hoisted
InstructionsWithoutDeclarations ==
    Assembled =>
        merge_result[1] =
            str_join(<<"\n">>, pointer_unpack_statements \o barrier_adjusted.instructions)

\* C24: the preamble text _merge_kernels returns is the target preambles, then the
\* deduplicated device preambles, then the deduplicated initializers.
C24_PreambleOrder ==
    Assembled =>
        merge_result[2] =
            LET texts == target_preambles \o preambles \o inits
            IN str_join(<<"\n">>, [i \in 1..Len(texts) |-> dedent(texts[i])])

\* the preamble text is the device preambles, then the target preambles, then the
\* initializers
DevicePreamblesFirst ==
    Assembled =>
        merge_result[2] =
            LET texts == preambles \o target_preambles \o inits
            IN str_join(<<"\n">>, [i \in 1..Len(texts) |-> dedent(texts[i])])

\* the number of places of a text where a pattern occurs
occurrences(pattern, text) == Cardinality({i \in 1..Len(text) : occurs_at(text, pattern, i)})

\* C26: in the preamble text no device preamble and no initializer occurs twice,
\* whether it came from two kernels or twice from the program of one kernel, and no
\* initializer occurs whose identifier is a read-only name.
C26_NoDuplicatePreambles ==
    Assembled =>
        \A i \in 1..Len(merge_kernels) :
            /\ \A j \in 1..Len(merge_kernels[i].device_preambles) :
                  occurrences(merge_kernels[i].device_preambles[j], merge_result[2]) = 1
            /\ \A j \in 1..Len(merge_kernels[i].contents) :
                  occurrences(merge_kernels[i].contents[j].text, merge_result[2]) =
                     IF rec_check_name(merge_kernels[i].contents[j].vdecl, merge_readonly)
                     THEN 0 ELSE 1

\* the same, for programs that do not hold an initializer twice
NoDuplicatesAcrossKernels ==
    Assembled /\ (\A i \in 1..Len(merge_kernels) : NoDuplicates(merge_kernels[i].contents)) =>
        \A i \in 1..Len(merge_kernels) :
            /\ \A j \in 1..Len(merge_kernels[i].device_preambles) :
                  occurrences(merge_kernels[i].device_preambles[j], merge_result[2]) = 1
            /\ \A j \in 1..Len(merge_kernels[i].contents) :
                  occurrences(merge_kernels[i].contents[j].text, merge_result[2]) =
                     IF rec_check_name(merge_kernels[i].contents[j].vdecl, merge_readonly)
                     THEN 0 ELSE 1
============================================================================
